---- MODULE Spec2Model ----
(***************************************************************************)
(* Job-graph orchestration of cactus-graphmap-split and cactus-align.      *)
(*                                                                         *)
(* The two programs build a graph of jobs (children, follow-ons, promised  *)
(* return values) and hand it to the job executor.  Every job function of  *)
(* the source is an operator of the same name that maps the job's resolved *)
(* arguments to a "plan": the jobs it adds, the edges it adds, the value   *)
(* it returns, or the error it raises.  The executor commits a plan when   *)
(* the job's body ends.                                                    *)
(***************************************************************************)
EXTENDS Integers, Sequences, FiniteSets, TLC

(***************************************************************************)
(* Bounds of the model.                                                    *)
(***************************************************************************)
\* largest size (in bytes) of an imported or produced blob
MaxSize == 2
\* most times a job may submit itself again
MaxRedispatch == 2
\* most lines of a chrom file
MaxLines == 2
\* largest --stagger, in seconds
MaxStagger == 1
\* the clock stops here, in seconds
MaxTime == 2
\* most times a run is interrupted and restarted
MaxRestarts == 1
\* the largest id of a line of a .fa_contigs list that is tried on a prefix
MaxLineId == 11

(***************************************************************************)
(* Values that travel between jobs.  Every value carries a tag so that a   *)
(* promise nested anywhere inside an argument can be found.                *)
(***************************************************************************)
None == [tag |-> "none"]
Val(v) == [tag |-> "val", v |-> v]
Blob(id, size) == [tag |-> "blob", id |-> id, size |-> size]
Promise(t, slot) == [tag |-> "promise", task |-> t, slot |-> slot]
Tuple(items) == [tag |-> "tuple", items |-> items]
Dict(map) == [tag |-> "dict", map |-> map]
\* slot of a promise on the whole return value: job.rv()
Whole == 0 - 1

UnresolvedPromiseError == [tag |-> "error", kind |-> "UnresolvedPromiseError"]

(***************************************************************************)
(* Names.                                                                  *)
(***************************************************************************)
\* the event split_fa_into_contigs accepts without any contig
MINIGRAPH_SEQUENCES == "__MINIGRAPH_SEQUENCES__"
\* event names, in the order python's sorted() gives them
EventOrder == <<"A", MINIGRAPH_SEQUENCES>>
AllEvents == {EventOrder[i] : i \in DOMAIN EventOrder}
\* names rgfa-split may give its output files
Contigs == {"chr1", "chr2"}
\* the same names, in the order a table or a chrom file first holds them
ContigOrder == <<"chr1", "chr2">>
SplitExts == {"gfa", "paf", "fa_contigs"}

\* A task is <<job function, key, n>>: the key tells apart the jobs of one
\* function, n the re-submissions of a job by itself.
T(kind, key) == <<kind, key, 0>>
SplitTasks ==
    {T("graphmap_split_workflow", ""), T("Job", "graphmap_split_workflow"),
     T("unzip_gz", "gfa"), T("unzip_gz", "paf"),
     T("split_gfa", ""), T("split_fas", ""), T("Job", "split_fas"),
     T("gather_fas", "")}
      \cup {T("split_fa_into_contigs", e) : e \in AllEvents}

SplitRoot == T("graphmap_split_workflow", "")

\* the key of the single alignment when not in batch mode: python's None
NoChrom == "None"
\* the jobs of the alignments of the keys
AlignTasks(keys) ==
    {T("run_batch_align_jobs", "")}
      \cup {T(k, c) :
              k \in {"run_cactus_align", "Job", "paf_to_lastz",
                     "run_prepend_unique_ids", "run_ingroup_coverage",
                     "run_setup_phase", "CactusSetupCheckpoint",
                     "run_prepare_hal_export", "exportHal"},
              c \in keys}
      \cup {<<"export_vg", c, n>> : c \in keys, n \in 0 .. MaxRedispatch}
AlignRoot == T("run_batch_align_jobs", "")

VARIABLES
    state,      \* task -> Absent | Pending | Running | Succeeded | Failed
    children,   \* task -> the tasks added with addChild
    followOn,   \* task -> the tasks added with addFollowOn
    args,       \* task -> the arguments it was created with (may hold promises)
    result,     \* task -> the value its body returned (may hold promises)
    disk,       \* task -> the disk it requests (0: the default)
    memory,     \* task -> the memory it requests (0: the default)
    error,      \* task -> the error that ended it ("" if none)
    store,      \* the blobs written to the file store, with their content
    sink,       \* the objects written to the durable sink
    now,        \* the clock, in seconds
    dispatched, \* alignment task -> when the executor started it
    workStart,  \* alignment task -> when its body went on after its delay
    input,      \* what the main program was started with
    leader,     \* the main program: running | interrupted | exported | failed
    exported,   \* what the main program wrote to the output directory
    checkpointLog, \* task -> the terminal states recorded for it, in order
    restarts,   \* how many times the run was restarted
    resumedWith \* the top-level tasks that were complete at the interruption

\* the jobs a run may create: those of the program that was started and, for
\* cactus-align, of the chromosomes its chrom file names
Tasks ==
    IF input.prog = "split" THEN SplitTasks
    ELSE IF input.options.batch
         THEN AlignTasks({input.lines[i].chrom :
                            i \in {j \in DOMAIN input.lines : input.lines[j].toks # 0}})
         ELSE AlignTasks({NoChrom})

graphVars == <<children, followOn, args, result, disk, memory, error, store, sink>>
timeVars == <<now, dispatched, workStart>>
restartVars == <<checkpointLog, restarts, resumedWith>>
vars == <<state, graphVars, timeVars, input, leader, exported, restartVars>>

(***************************************************************************)
(* Promises: job.rv() and job.rv(i).  A promise stands for the return      *)
(* value of its producer, and has a value once the producer has succeeded  *)
(* and every promise inside that return value has one.                     *)
(***************************************************************************)
RECURSIVE Resolved(_)
Resolved(v) ==
    CASE v.tag = "promise" ->
             state[v.task] = "Succeeded" /\ Resolved(result[v.task])
      [] v.tag = "tuple" -> \A i \in DOMAIN v.items : Resolved(v.items[i])
      [] v.tag = "dict" -> \A k \in DOMAIN v.map : Resolved(v.map[k])
      [] OTHER -> TRUE

RECURSIVE Resolve(_)
Resolve(v) ==
    CASE v.tag = "promise" ->
             LET r == Resolve(result[v.task])
             IN  IF v.slot = Whole THEN r ELSE r.items[v.slot + 1]
      [] v.tag = "tuple" -> Tuple([i \in DOMAIN v.items |-> Resolve(v.items[i])])
      [] v.tag = "dict" -> Dict([k \in DOMAIN v.map |-> Resolve(v.map[k])])
      [] OTHER -> v

\* a dereference that hands out a default for a value that is not there yet
DerefOrDefault(v) == IF Resolved(v) THEN Resolve(v) ELSE None

Deref(v) == IF Resolved(v) THEN Resolve(v) ELSE UnresolvedPromiseError

\* the ids of the blobs a value holds, at any depth
RECURSIVE BlobIdsIn(_)
BlobIdsIn(v) ==
    CASE v.tag = "blob" -> {v.id}
      [] v.tag = "tuple" -> UNION {BlobIdsIn(v.items[i]) : i \in DOMAIN v.items}
      [] v.tag = "dict" -> UNION {BlobIdsIn(v.map[k]) : k \in DOMAIN v.map}
      [] OTHER -> {}

\* the promises a value holds, at any depth
RECURSIVE PromisesIn(_)
PromisesIn(v) ==
    CASE v.tag = "promise" -> {v}
      [] v.tag = "tuple" -> UNION {PromisesIn(v.items[i]) : i \in DOMAIN v.items}
      [] v.tag = "dict" -> UNION {PromisesIn(v.map[k]) : k \in DOMAIN v.map}
      [] OTHER -> {}

(***************************************************************************)
(* Plans: what the body of a job asks of the executor when it ends.        *)
(***************************************************************************)
\*   new       the jobs it created: task -> [args, disk, memory]
\*   childOf   the edges added with addChild, <<parent, child>>
\*   followOf  the edges added with addFollowOn, <<predecessor, follow-on>>
\*   ret       the value it returns
\*   err       the error it raises ("" if none)
\*   writes    the blobs it wrote to the file store
\*   sink      the objects it wrote to the durable sink (write_s3)
\*   modifies  the blobs of the file store it changed in place
NoJobs == [t \in {} |-> None]
Job(jobArgs, jobDisk, jobMemory) ==
    [args |-> jobArgs, disk |-> jobDisk, memory |-> jobMemory]
Return(v) ==
    [new |-> NoJobs, childOf |-> {}, followOf |-> {}, ret |-> v, err |-> "",
     writes |-> {}, sink |-> {}, modifies |-> {}]
Raise(e) == [Return(None) EXCEPT !.err = e]
\* writeGlobalFile(path): a blob that is kept; with cleanup=True a blob that
\* goes once the job that wrote it and all its successors are done
NoTask == <<>>
File(id, content) == [id |-> id, content |-> content, cleanup |-> NoTask]
CleanupFile(id, content, job) == [id |-> id, content |-> content, cleanup |-> job]

\* job.fileStore.readGlobalFile(id, path, mutable): the local file at path
\* is the job's own copy when mutable, the stored file itself otherwise
readGlobalFile(id, path, mutable) == [blob |-> id, path |-> path, own |-> mutable]

\* the blobs a command changes when it rewrites the file at path, locals
\* being the files the job has read from the store
Rewrites(path, locals) == {l.blob : l \in {x \in locals : x.path = path /\ ~x.own}}

\* the file store after the blobs of ids were changed in place
Rewritten == 0 - 1
in_place(files, ids) ==
    {IF f.id \in ids THEN [f EXCEPT !.content = @ \cup {Rewritten}] ELSE f :
        f \in files}

(***************************************************************************)
(* cactus-graphmap-split: the job functions.                               *)
(***************************************************************************)
\* path.endswith(".gz"); a path is [name, gz]
EndsWithGz(path) == path.gz

\* Job(): a job without a body
EmptyJob == Job(Tuple(<<>>), 0, 0)

\* split_gfa attached to root_job as one more child, beside the unzip jobs
split_gfa_as_child(root_job, split_gfa_job) ==
    [childOf |-> {<<root_job, split_gfa_job>>}, followOf |-> {}]

\* how split_gfa is attached to root_job
split_gfa_edge(root_job, split_gfa_job) ==
    [childOf |-> {}, followOf |-> {<<root_job, split_gfa_job>>}]

\* a compressed input taken at its imported size
unzipped_size_as_imported(size) == size

\* gfa_size *= 10, paf_size *= 10: the size taken for a compressed input
unzipped_size(size) == size * 10

\* a is the record of the job's arguments
graphmap_split_workflow(job, a) ==
    LET root_job == T("Job", "graphmap_split_workflow")
        unzip_gfa == T("unzip_gz", "gfa")
        unzip_paf == T("unzip_gz", "paf")
        split_gfa_job == T("split_gfa", "")
        split_fas_job == T("split_fas", "")
        gather_fas_job == T("gather_fas", "")
        gfa_gz == EndsWithGz(a.gfa_path.v)
        paf_gz == EndsWithGz(a.paf_path.v)
        gfa_id == IF gfa_gz THEN Promise(unzip_gfa, Whole) ELSE a.gfa_id
        gfa_size == IF gfa_gz THEN unzipped_size(a.gfa_id.size) ELSE a.gfa_id.size
        paf_id == IF paf_gz THEN Promise(unzip_paf, Whole) ELSE a.paf_id
        paf_size == IF paf_gz THEN unzipped_size(a.paf_id.size) ELSE a.paf_id.size
        edge == split_gfa_edge(root_job, split_gfa_job)
    IN  {[Return(Promise(gather_fas_job, Whole)) EXCEPT
            !.new =
                (root_job :> EmptyJob)
                  @@ (IF gfa_gz
                      THEN unzip_gfa :>
                             Job(Dict([path |-> a.gfa_path, id |-> a.gfa_id]),
                                 a.gfa_id.size * 10, 0)
                      ELSE NoJobs)
                  @@ (IF paf_gz
                      THEN unzip_paf :>
                             Job(Dict([path |-> a.paf_path, id |-> a.paf_id]),
                                 a.paf_id.size * 10, 0)
                      ELSE NoJobs)
                  @@ (split_gfa_job :>
                        Job(Dict([gfa_id |-> gfa_id, paf_id |-> paf_id,
                                  ref_contigs |-> a.ref_contigs]),
                            (gfa_size + paf_size) * 5, 0))
                  @@ (split_fas_job :>
                        Job(Dict([seq_id_map |-> a.seqIDMap,
                                  split_id_map |-> Promise(split_gfa_job, Whole)]),
                            0, 0))
                  @@ (gather_fas_job :>
                        Job(Dict([seq_id_map |-> a.seqIDMap,
                                  output_id_map |-> Promise(split_gfa_job, Whole),
                                  contig_fa_map |-> Promise(split_fas_job, Whole)]),
                            0, 0)),
            !.childOf =
                {<<job, root_job>>}
                  \cup (IF gfa_gz THEN {<<root_job, unzip_gfa>>} ELSE {})
                  \cup (IF paf_gz THEN {<<root_job, unzip_paf>>} ELSE {})
                  \cup edge.childOf,
            !.followOf =
                edge.followOf
                  \cup {<<split_gfa_job, split_fas_job>>,
                        <<split_fas_job, gather_fas_job>>}]}

\* unzip_gz writes the decompressed file and returns its id
unzip_gz(job, a) ==
    LET id == <<"unzip", a.path.v.name>>
    IN  {[Return(Blob(id, a.id.size)) EXCEPT !.writes = {File(id, {})}]}

\* What rgfa-split may leave in its output directory: files is a set of
\* <<name, ext>>, and lines[name] the lines of name.fa_contigs, each line
\* given by the n of its "id=n|" prefix.
split_gfa(job, a, files, lines) ==
    LET names == {n \in Contigs : \E x \in SplitExts : <<n, x>> \in files}
        exts(n) == {x \in SplitExts : <<n, x>> \in files}
        output_id_map ==
            Dict([n \in names |-> Dict([x \in exts(n) |-> Blob(<<n, x>>, 1)])])
    IN  {[Return(output_id_map) EXCEPT
            !.writes =
                {File(<<f[1], f[2]>>, IF f[2] = "fa_contigs" THEN lines[f[1]] ELSE {}) :
                    f \in {g \in files : g[2] \in SplitExts}}]}

\* enumerate(sorted(set(seq_id_map.keys())))
EventRank(e) == CHOOSE i \in DOMAIN EventOrder : EventOrder[i] = e
cactus_id_map(events) ==
    [e \in events |-> Cardinality({x \in events : EventRank(x) < EventRank(e)})]

split_fas(job, a) ==
    LET root_job == T("Job", "split_fas")
        events == DOMAIN a.seq_id_map.map
        ids == cactus_id_map(events)
        child(e) == T("split_fa_into_contigs", e)
        fa(e) == a.seq_id_map.map[e].items
    IN  {[Return(Dict([e \in events |-> Promise(child(e), Whole)])) EXCEPT
            !.new =
                (root_job :> EmptyJob)
                  @@ [t \in {child(e) : e \in events} |->
                        Job(Dict([event |-> Val(t[2]), fa_id |-> fa(t[2])[2],
                                  fa_path |-> fa(t[2])[1],
                                  cactus_id |-> Val(ids[t[2]]),
                                  split_id_map |-> a.split_id_map]),
                            fa(t[2])[2].size * 3, 0)],
            !.childOf =
                {<<job, root_job>>} \cup {<<root_job, child(e)>> : e \in events}]}

\* the content of a blob of the file store
Content(id) == (CHOOSE f \in store : f.id = id).content

\* str(n): the decimal digits of n
RECURSIVE Digits(_)
Digits(n) ==
    LET digit == <<"0", "1", "2", "3", "4", "5", "6", "7", "8", "9">>
    IN  IF n < 10 THEN <<digit[n + 1]>>
        ELSE Append(Digits(n \div 10), digit[(n % 10) + 1])

\* a prefix that does not end with the bar
UniquePrefix_without_bar(cactus_id) == <<"id=">> \o Digits(cactus_id)

\* 'id={}|'.format(cactus_id)
UniquePrefix(cactus_id) == <<"id=">> \o Digits(cactus_id) \o <<"|">>

\* the text of a line of a .fa_contigs list: a contig of the event with
\* the id n, as rgfa-split names it
LineText(n) == <<"id=">> \o Digits(n) \o <<"|">> \o <<"contig">>

\* str.startswith
StartsWith(text, prefix) ==
    Len(prefix) <= Len(text) /\ SubSeq(text, 1, Len(prefix)) = prefix

\* line.strip().startswith('id={}|'.format(cactus_id)), line being given by
\* the n of its text
StartsWithUniqueId(line, cactus_id) ==
    StartsWith(LineText(line), UniquePrefix(cactus_id))

\* another event taken for the one that may have no contig
first_event == "A"

\* the event that may have no contig in a reference contig
no_contig_event == MINIGRAPH_SEQUENCES

\* the id an event would have if it were taken from a counter that the
\* sibling jobs share: the number of siblings that are done
unique_id_by_arrival(job, a) ==
    Cardinality({t \in Tasks : t[1] = job[1] /\ state[t] = "Succeeded"})

\* the id whose prefix 'id=<n>|' marks the event's contigs: the cactus_id
\* argument the job was created with
unique_id(job, a) == a.cactus_id.v

\* a fasta that is never read as a mutable copy
fa_never_mutable(is_gz) == FALSE

\* readGlobalFile(fa_id, fa_path, mutable=is_gz)
fa_mutable(is_gz) == is_gz

\* the download of the fasta: gzip -fd on the local file if it ends in .gz
gunzip_fa(job, a) ==
    LET is_gz == EndsWithGz(a.fa_path.v)
        fa == readGlobalFile(a.fa_id.id, a.fa_path.v, fa_mutable(is_gz))
    IN  IF is_gz THEN Rewrites(fa.path, {fa}) ELSE {}

split_fa_into_contigs(job, a) ==
    LET event == a.event.v
        ref_contigs == DOMAIN a.split_id_map.map
        attrs(rc) == a.split_id_map.map[rc].map
        no_list == {rc \in ref_contigs : "fa_contigs" \notin DOMAIN attrs(rc)}
        contig_count(rc) ==
            Cardinality({l \in Content(attrs(rc).fa_contigs.id) :
                            StartsWithUniqueId(l, unique_id(job, a))})
        empty == {rc \in ref_contigs \ no_list : contig_count(rc) = 0}
        contig_fa_dict ==
            Dict([rc \in ref_contigs |->
                    IF contig_count(rc) > 0
                    THEN Blob(<<event, rc, "fa">>, 1)
                    ELSE a.fa_id])
    IN  \* the loop stops at the first reference contig that raises
        IF no_list # {} \/ (empty # {} /\ event # no_contig_event)
        THEN (IF no_list # {}
              THEN {[Raise("KeyError") EXCEPT !.modifies = gunzip_fa(job, a)]}
              ELSE {})
               \cup (IF empty # {} /\ event # no_contig_event
                     THEN {[Raise("AssertionError") EXCEPT
                              !.modifies = gunzip_fa(job, a)]}
                     ELSE {})
        ELSE {[Return(contig_fa_dict) EXCEPT
                 !.writes =
                     {File(<<event, rc, "fa">>, {}) :
                         rc \in {x \in ref_contigs : contig_count(x) > 0}},
                 !.modifies = gunzip_fa(job, a)]}

\* gather_fas keeping the reference contigs with a gfa and a paf only
gather_fas_complete_only(job, a) ==
    LET output_id_map == a.output_id_map.map
        contig_fa_map == a.contig_fa_map.map
        events == DOMAIN contig_fa_map
        keys == {rc \in DOMAIN output_id_map :
                    {"gfa", "paf"} \subseteq DOMAIN output_id_map[rc].map}
        withFa(rc) ==
            [x \in DOMAIN output_id_map[rc].map \cup {"fa"} |->
                IF x = "fa"
                THEN Dict([e \in events |-> contig_fa_map[e].map[rc]])
                ELSE output_id_map[rc].map[x]]
    IN  IF \E rc \in DOMAIN output_id_map, e \in events :
               rc \notin DOMAIN contig_fa_map[e].map
        THEN {Raise("KeyError")}
        ELSE {Return(Dict([rc \in keys |-> Dict(withFa(rc))]))}

\* gather_fas leaving out the events that have nothing for a reference contig
gather_fas_lenient(job, a) ==
    LET output_id_map == a.output_id_map.map
        contig_fa_map == a.contig_fa_map.map
        having(rc) == {e \in DOMAIN contig_fa_map : rc \in DOMAIN contig_fa_map[e].map}
        withFa(rc) ==
            [x \in DOMAIN output_id_map[rc].map \cup {"fa"} |->
                IF x = "fa"
                THEN Dict([e \in having(rc) |-> contig_fa_map[e].map[rc]])
                ELSE output_id_map[rc].map[x]]
    IN  {Return(Dict([rc \in DOMAIN output_id_map |-> Dict(withFa(rc))]))}

gather_fas(job, a) ==
    LET output_id_map == a.output_id_map.map
        contig_fa_map == a.contig_fa_map.map
        events == DOMAIN contig_fa_map
        missing == \E rc \in DOMAIN output_id_map, e \in events :
                       rc \notin DOMAIN contig_fa_map[e].map
        withFa(rc) ==
            [x \in DOMAIN output_id_map[rc].map \cup {"fa"} |->
                IF x = "fa"
                THEN Dict([e \in events |-> contig_fa_map[e].map[rc]])
                ELSE output_id_map[rc].map[x]]
    IN  IF missing
        THEN {Raise("KeyError")}
        ELSE {Return(Dict([rc \in DOMAIN output_id_map |-> Dict(withFa(rc))]))}

\* What the main program writes for the table the workflow returned: the
\* set of possible outcomes.  A path is the tuple of its parts under outDir.
\* The loop over the table stops at the first key that raises, after the
\* keys that came before it (done) were written.
\* for key, value in d.items() that leaves out the first item
dict_items_but_first(d, order) ==
    LET keys == SelectSeq(order, LAMBDA k : k \in DOMAIN d)
    IN  [i \in 1 .. (Len(keys) - 1) |-> <<keys[i + 1], d[keys[i + 1]]>>]

\* for key, value in d.items(): every key of the dict once, with its value
dict_items(d, order) ==
    LET keys == SelectSeq(order, LAMBDA k : k \in DOMAIN d)
    IN  [i \in 1 .. Len(keys) |-> <<keys[i], d[keys[i]]>>]

\* one line of a manifest: '{}\t{}\n'.format(name, path)
ManifestLine(item) == [name |-> item[1], path |-> item[2]]

\* the lines written by the loop over the items of a dict
ManifestOf(d, order) ==
    LET items == dict_items(d, order)
    IN  [i \in 1 .. Len(items) |-> ManifestLine(items[i])]

\* files: the exported files; seqfile: the lines of <rc>.seqfile
ExportOf(output_id_map, rc) ==
    LET attrs == output_id_map.map[rc].map
        seq_file_map == [e \in DOMAIN attrs.fa.map |-> <<rc, "fasta", e>>]
    IN  [files |->
            {<<<<rc, "gfa">>, attrs.gfa.id>>, <<<<rc, "paf">>, attrs.paf.id>>}
              \cup {<<seq_file_map[e], attrs.fa.map[e].id>> : e \in DOMAIN attrs.fa.map},
         seqfile |-> ManifestOf(seq_file_map, EventOrder)]

export_split_data(output_id_map) ==
    LET keys == DOMAIN output_id_map.map
        attrs(rc) == output_id_map.map[rc].map
        bad == {rc \in keys : {"gfa", "paf"} \ DOMAIN attrs(rc) # {}}
        partial(rc) ==
            IF "gfa" \in DOMAIN attrs(rc)
            THEN {<<<<rc, "gfa">>, attrs(rc).gfa.id>>} ELSE {}
        written(done) ==
            [files |-> UNION {ExportOf(output_id_map, rc).files : rc \in done},
             seqfiles |-> [rc \in done |-> ExportOf(output_id_map, rc).seqfile]]
        chrom_file_map == [rc \in keys |-> <<rc, "seqfile">>]
    IN  IF bad = {}
        THEN {[files |-> written(keys).files, seqfiles |-> written(keys).seqfiles,
               chromfile |-> ManifestOf(chrom_file_map, ContigOrder),
               err |-> ""]}
        ELSE {[files |-> written(done).files \cup partial(rc),
               seqfiles |-> written(done).seqfiles,
               chromfile |-> <<>>, err |-> "KeyError"] :
                  rc \in bad, done \in SUBSET (keys \ bad)}

(***************************************************************************)
(* cactus-align: building the jobs (main program) and the job functions.   *)
(***************************************************************************)
\* A line of the chrom file after line.strip().split(): toks is the number
\* of tokens, chrom the first of them.
BlankLine == [toks |-> 0, chrom |-> ""]
ChromLine(chrom) == [toks |-> 3, chrom |-> chrom]

\* make_align_job: the arguments of the run_cactus_align job it wraps.
\* og_fragments: an outgroup fragment file was found for every outgroup;
\* secondary: the .secondary alignment file exists.
make_align_job(options, key, og_fragments, secondary) ==
    Dict([cactusWorkflowArguments |->
            Dict([alignmentsID |-> Blob(<<"import", key, "alignments">>, 1),
                  secondaryAlignmentsID |->
                      IF ~options.pafInput /\ secondary
                      THEN Blob(<<"import", key, "secondary">>, 1)
                      ELSE None,
                  outgroupFragmentIDs |->
                      Tuple(<<Blob(<<"import", key,
                                     IF og_fragments THEN "og_fragment_0"
                                     ELSE "outgroup">>, 1)>>),
                  ingroupCoverageIDs |->
                      IF og_fragments
                      THEN Tuple(<<Blob(<<"import", key, "ig_coverage_0">>, 1)>>)
                      ELSE Tuple(<<>>),
                  sequenceID |-> Blob(<<"import", key, "fa">>, 1)]),
          checkpointInfo |-> options.checkpointInfo,
          doRenaming |-> Val(options.nonCactusInput),
          pafInput |-> Val(options.pafInput),
          pafSecondaries |-> Val(options.usePafSecondaries),
          doVG |-> Val(options.outVG),
          doGFA |-> Val(options.outGFA),
          delay |-> Val(options.stagger)])

\* the checkpoint key of one chromosome of a batch
ChromCheckpoint(checkpointInfo, chrom) ==
    IF checkpointInfo.tag = "none" THEN checkpointInfo
    ELSE Val([region |-> checkpointInfo.v.region,
              path |-> Append(checkpointInfo.v.path, chrom)])

\* the lines with tokens among the first n lines
Launched(lines, n) == {j \in 1 .. n : lines[j].toks # 0}

\* make_batch_align_jobs: the dictionary of jobs, or the failed assertion
make_batch_align_jobs(options, lines, og_fragments, secondary) ==
    IF options.batch
    THEN IF \E i \in DOMAIN lines : lines[i].toks \notin {0, 3}
         THEN [err |-> "AssertionError", jobs |-> Dict(<<>>)]
         ELSE LET chroms == {lines[i].chrom : i \in Launched(lines, Len(lines))}
                  \* a later line replaces the job of an earlier line of its name
                  last(c) == CHOOSE i \in Launched(lines, Len(lines)) :
                                 /\ lines[i].chrom = c
                                 /\ \A j \in Launched(lines, Len(lines)) :
                                       lines[j].chrom = c => j <= i
                  stagger_delay(i) ==
                      options.stagger * Cardinality(Launched(lines, i - 1))
                  chrom_options(c) ==
                      [options EXCEPT
                          !.batch = FALSE,
                          !.stagger = stagger_delay(last(c)),
                          !.checkpointInfo =
                              ChromCheckpoint(options.checkpointInfo, c)]
              IN  [err |-> "",
                   jobs |-> Dict([c \in chroms |->
                                    make_align_job(chrom_options(c), c,
                                                   og_fragments, secondary)])]
    ELSE [err |-> "",
          jobs |-> Dict([c \in {NoChrom} |->
                           make_align_job(options, c, og_fragments, secondary)])]

run_batch_align_jobs(job, a) ==
    LET chroms == DOMAIN a.jobs_dict.map
        chrom_job(c) == T("run_cactus_align", c)
    IN  {[Return(Dict([c \in chroms |-> Promise(chrom_job(c), Whole)])) EXCEPT
            !.new = [t \in {chrom_job(c) : c \in chroms} |->
                        Job(a.jobs_dict.map[t[2]], 0, 0)],
            !.childOf = {<<job, chrom_job(c)>> : c \in chroms}]}

\* export_vg attached under the head job of its alignment
vg_export_under_head(hal_export_job, vg_export_job) ==
    [childOf |-> {<<<<"Job", hal_export_job[2], 0>>, vg_export_job>>},
     followOf |-> {}]

\* export_vg attached both under the head job and after exportHal
vg_export_two_parents(hal_export_job, vg_export_job) ==
    [childOf |-> {<<<<"Job", hal_export_job[2], 0>>, vg_export_job>>},
     followOf |-> {<<hal_export_job, vg_export_job>>}]

\* how export_vg is attached to the exportHal job
vg_export_edge(hal_export_job, vg_export_job) ==
    [childOf |-> {}, followOf |-> {<<hal_export_job, vg_export_job>>}]

run_cactus_align(job, a) ==
    LET key == job[2]
        head_job == T("Job", key)
        paf_to_lastz_job == T("paf_to_lastz", key)
        prepend_job == T("run_prepend_unique_ids", key)
        coverage_job == T("run_ingroup_coverage", key)
        setup_job == T("run_setup_phase", key)
        prepare_hal_export_job == T("run_prepare_hal_export", key)
        hal_export_job == T("exportHal", key)
        vg_export_job == T("export_vg", key)
        pafInput == a.pafInput.v
        exportVG == a.doVG.v \/ a.doGFA.v
        cwa0 == a.cactusWorkflowArguments.map
        cwa1 == IF pafInput
                THEN [cwa0 EXCEPT
                        !.alignmentsID = Promise(paf_to_lastz_job, 0),
                        !.secondaryAlignmentsID =
                            IF a.pafSecondaries.v
                            THEN Promise(paf_to_lastz_job, 1) ELSE None]
                ELSE cwa0
        no_ingroup_coverage == Len(cwa1.ingroupCoverageIDs.items) = 0
        cur_job == IF no_ingroup_coverage THEN coverage_job ELSE prepend_job
        vg_edge == vg_export_edge(hal_export_job, vg_export_job)
    IN  {[Return(Tuple(<<Promise(hal_export_job, Whole),
                         IF exportVG THEN Promise(vg_export_job, 0) ELSE None,
                         IF exportVG THEN Promise(vg_export_job, 1) ELSE None>>))
          EXCEPT
            !.new =
                (head_job :> EmptyJob)
                  @@ (IF pafInput
                      THEN paf_to_lastz_job :>
                             Job(Dict([paf |-> cwa0.alignmentsID]), 0, 0)
                      ELSE NoJobs)
                  @@ (prepend_job :>
                        Job(Dict([cactusWorkflowArguments |-> Dict(cwa1),
                                  renameCigars |-> a.doRenaming]), 0, 0))
                  @@ (IF no_ingroup_coverage
                      THEN coverage_job :>
                             Job(Dict([cactusWorkflowArguments |->
                                          Promise(prepend_job, Whole)]), 0, 0)
                      ELSE NoJobs)
                  @@ (setup_job :>
                        Job(Dict([cactusWorkflowArguments |->
                                     Promise(cur_job, Whole)]), 0, 0))
                  @@ (prepare_hal_export_job :>
                        Job(Dict([experiment |-> Promise(setup_job, Whole)]), 0, 0))
                  @@ (hal_export_job :>
                        Job(Dict([project |-> Promise(prepare_hal_export_job, 0),
                                  event |-> Promise(prepare_hal_export_job, 1),
                                  checkpointInfo |-> a.checkpointInfo]), 0, 0))
                  @@ (IF exportVG
                      THEN vg_export_job :>
                             Job(Dict([hal_id |-> Promise(hal_export_job, Whole),
                                       configWrapper |-> Val("configWrapper"),
                                       doVG |-> a.doVG, doGFA |-> a.doGFA,
                                       checkpointInfo |-> a.checkpointInfo,
                                       resource_spec |-> Val(FALSE)]), 0, 0)
                      ELSE NoJobs),
            !.childOf =
                {<<job, head_job>>}
                  \cup (IF pafInput THEN {<<head_job, paf_to_lastz_job>>} ELSE {})
                  \cup (IF exportVG THEN vg_edge.childOf ELSE {}),
            !.followOf =
                {<<head_job, prepend_job>>}
                  \cup (IF no_ingroup_coverage
                        THEN {<<prepend_job, coverage_job>>} ELSE {})
                  \cup {<<cur_job, setup_job>>,
                        <<setup_job, prepare_hal_export_job>>,
                        <<prepare_hal_export_job, hal_export_job>>}
                  \cup (IF exportVG THEN vg_edge.followOf ELSE {})]}

\* paf_to_lastz returns the primary and the secondary lastz file
paf_to_lastz(job, a) ==
    LET primary == <<job[2], "lastz">>
        secondary == <<job[2], "lastz_secondary">>
    IN  {[Return(Tuple(<<Blob(primary, 1), Blob(secondary, 1)>>)) EXCEPT
            !.writes = {File(primary, {}), File(secondary, {})}]}

\* the download of an ingroup sequence whose path ends in .gz or not:
\* gzip -d -c seqPath > seqPath[:-3]
gunzip_sequence(seqID, gz) ==
    LET seqPath == [name |-> "tmp.fa", gz |-> gz]
        seq == readGlobalFile(seqID, seqPath, FALSE)
    IN  IF gz THEN Rewrites([seqPath EXCEPT !.gz = FALSE], {seq}) ELSE {}

run_prepend_unique_ids(job, a) ==
    LET cwa == a.cactusWorkflowArguments.map
        uniqueFa == <<job[2], "unique_fa">>
        renamed == <<job[2], "renamed_alignments">>
    IN  {[Return(Dict([cwa EXCEPT
                          !.sequenceID = Blob(uniqueFa, 1),
                          !.alignmentsID =
                              IF a.renameCigars.v THEN Blob(renamed, 1) ELSE @]))
          EXCEPT
            !.writes = {CleanupFile(uniqueFa, {}, job)}
                         \cup (IF a.renameCigars.v
                               THEN {CleanupFile(renamed, {}, job)} ELSE {}),
            !.modifies = UNION {gunzip_sequence(cwa.sequenceID.id, gz) :
                                   gz \in BOOLEAN}]}

run_ingroup_coverage(job, a) ==
    LET cwa == a.cactusWorkflowArguments.map
        coverage == <<job[2], "coverage">>
        outgroups == cwa.outgroupFragmentIDs.items
    IN  {[Return(Dict([cwa EXCEPT
                          !.ingroupCoverageIDs =
                              IF Len(outgroups) > 0
                              THEN Tuple(Append(@.items, Blob(coverage, 1)))
                              ELSE @]))
          EXCEPT
            !.writes = IF Len(outgroups) > 0 THEN {File(coverage, {})} ELSE {}]}

run_setup_phase(job, a) ==
    LET checkpoint == T("CactusSetupCheckpoint", job[2])
    IN  {[Return(Promise(checkpoint, Whole)) EXCEPT
            !.new = checkpoint :>
                      Job(Dict([cactusWorkflowArguments |-> a.cactusWorkflowArguments]),
                          0, 0),
            !.childOf = {<<job, checkpoint>>}]}

\* the setup phase and all that follows it, up to the finished experiment
CactusSetupCheckpoint(job, a) ==
    {Return(Val([experiment |-> job[2]]))}

run_prepare_hal_export(job, a) ==
    LET exp == <<job[2], "experiment_xml">>
    IN  {[Return(Tuple(<<Blob(exp, 1), Val("event")>>)) EXCEPT
            !.writes = {File(exp, {})}]}

\* every object written under the one path given as the output
SinkKey_without_ext(checkpointInfo, ext) == checkpointInfo.v.path

\* the path of an object of the sink: os.path.splitext(path)[0] + ext
SinkKey(checkpointInfo, ext) == Append(checkpointInfo.v.path, ext)

\* an object of the sink: its path and what was written there
S3Object(key, content) == [key |-> key, content |-> content]

\* write_s3(local_path, s3_path): the object at s3_path is replaced
write_s3(objects, written) ==
    {o \in objects : \A n \in written : n.key # o.key} \cup written

\* main: "write a little something to the bucket now".  The output names a
\* .hal object for one alignment and a directory for a batch.
TestKey(options) ==
    IF options.batch THEN Append(options.checkpointInfo.v.path, "test")
    ELSE SinkKey(options.checkpointInfo, "hal")
main_checks_bucket(options, objects) ==
    IF options.checkpointInfo.tag # "none"
    THEN write_s3(objects, {S3Object(TestKey(options), "check")})
    ELSE objects

\* exportHal returns the id of the hal file, whose size is size
exportHal(job, a, size) ==
    LET hal == <<job[2], "hal">>
    IN  {[Return(Blob(hal, size)) EXCEPT
            !.writes = {File(hal, {})},
            !.sink = IF a.checkpointInfo.tag = "none" THEN {}
                     ELSE {S3Object(SinkKey(a.checkpointInfo, "hal"), hal)}]}

\* a re-submission that is not marked as sized
resubmitted_unsized(a) == a

\* a re-submission that takes doGFA for doVG and doVG for doGFA
resubmitted_swapped(a) ==
    [a EXCEPT !.resource_spec = Val(TRUE), !.doVG = a.doGFA, !.doGFA = a.doVG]

\* the arguments export_vg passes on when it submits itself again
resubmitted_args(a) == [a EXCEPT !.resource_spec = Val(TRUE)]

\* the two factors taken one for the other
vg_resources_swapped(hal_size) == [disk |-> hal_size * 10, memory |-> hal_size * 3]

\* disk=hal_id.size * 3, memory=hal_id.size * 10
vg_resources(hal_size) == [disk |-> hal_size * 3, memory |-> hal_size * 10]

export_vg(job, a) ==
    IF ~a.resource_spec.v
    THEN \* the caller could not size the job: submit it again, sized
         LET child == <<job[1], job[2], job[3] + 1>>
         IN  {[Return(Promise(child, Whole)) EXCEPT
                 !.new = child :>
                           Job(Dict(resubmitted_args(a)),
                               vg_resources(a.hal_id.size).disk,
                               vg_resources(a.hal_id.size).memory),
                 !.childOf = {<<job, child>>}]}
    ELSE LET vg == <<job[2], "vg">>
             gfa == <<job[2], "gfa.gz">>
             s3 == a.checkpointInfo.tag # "none"
         IN  {[Return(Tuple(<<IF a.doVG.v THEN Blob(vg, 1) ELSE None,
                              IF a.doGFA.v THEN Blob(gfa, 1) ELSE None>>))
               EXCEPT
                 !.writes = (IF a.doVG.v THEN {File(vg, {})} ELSE {})
                              \cup (IF a.doGFA.v THEN {File(gfa, {})} ELSE {}),
                 !.sink = (IF s3
                           THEN {S3Object(SinkKey(a.checkpointInfo, "vg"), vg)}
                           ELSE {})
                            \cup (IF s3 /\ a.doGFA.v
                                  THEN {S3Object(SinkKey(a.checkpointInfo, "gfa.gz"),
                                                 gfa)}
                                  ELSE {})]}

(***************************************************************************)
(* The executor.  A child starts once its parent's body has ended; a       *)
(* follow-on starts once its predecessor and everything under the          *)
(* predecessor's children has succeeded.                                   *)
(***************************************************************************)
Kind(t) == t[1]
OfKind(k) == {t \in Tasks : Kind(t) = k}
NoTime == 0 - 1

RECURSIVE SubtreeDone(_)
SubtreeDone(t) ==
    /\ state[t] = "Succeeded"
    /\ \A c \in children[t] \cup followOn[t] : SubtreeDone(c)

\* the tasks under t: t, its children and follow-ons, and theirs
RECURSIVE Subtree(_)
Subtree(t) == {t} \cup UNION {Subtree(c) : c \in children[t] \cup followOn[t]}

Ready(t) ==
    /\ \A p \in Tasks : t \in children[p] => state[p] = "Succeeded"
    /\ \A p \in Tasks :
          t \in followOn[p] =>
              state[p] = "Succeeded" /\ \A c \in children[p] : SubtreeDone(c)

\* the delay a run_cactus_align task was created with
DelayOf(t) == args[t].map.delay.v

Start ==
    \E t \in Tasks :
        /\ leader = "running"
        /\ state[t] = "Pending"
        /\ Ready(t)
        /\ state' = [state EXCEPT ![t] = "Running"]
        /\ IF Kind(t) = "run_cactus_align"
           THEN /\ now + DelayOf(t) <= MaxTime
                /\ dispatched' = [dispatched EXCEPT ![t] = now]
           ELSE UNCHANGED dispatched
        /\ UNCHANGED <<graphVars, now, workStart, input, leader, exported,
                       restartVars>>

\* checkpoint(taskId, terminalState) that records the successes only
checkpoint_successes(log, t, terminalState) ==
    IF terminalState = "Succeeded"
    THEN [log EXCEPT ![t] = Append(@, terminalState)] ELSE log

\* checkpoint(taskId, terminalState): one more entry of the log
checkpoint(log, t, terminalState) == [log EXCEPT ![t] = Append(@, terminalState)]

Commit(t, plan) ==
    /\ leader = "running"
    /\ checkpointLog' =
          checkpoint(checkpointLog, t, IF plan.err # "" THEN "Failed" ELSE "Succeeded")
    /\ IF plan.err # ""
       THEN /\ state' = [state EXCEPT ![t] = "Failed"]
            /\ error' = [error EXCEPT ![t] = plan.err]
            /\ store' = in_place(store, plan.modifies)
            /\ UNCHANGED <<children, followOn, args, result, disk, memory, sink>>
       ELSE /\ state' = [x \in Tasks |->
                           IF x = t THEN "Succeeded"
                           ELSE IF x \in DOMAIN plan.new THEN "Pending"
                           ELSE state[x]]
            /\ args' = [x \in Tasks |->
                          IF x \in DOMAIN plan.new THEN plan.new[x].args ELSE args[x]]
            /\ disk' = [x \in Tasks |->
                          IF x \in DOMAIN plan.new THEN plan.new[x].disk ELSE disk[x]]
            /\ memory' = [x \in Tasks |->
                            IF x \in DOMAIN plan.new THEN plan.new[x].memory
                            ELSE memory[x]]
            /\ children' = [x \in Tasks |->
                              children[x] \cup {c \in Tasks : <<x, c>> \in plan.childOf}]
            /\ followOn' = [x \in Tasks |->
                              followOn[x] \cup {c \in Tasks : <<x, c>> \in plan.followOf}]
            /\ result' = [result EXCEPT ![t] = plan.ret]
            /\ store' = in_place(store, plan.modifies) \cup plan.writes
            /\ sink' = write_s3(sink, plan.sink)
            /\ UNCHANGED error
    /\ UNCHANGED <<input, leader, exported, restarts, resumedWith>>

\* the arguments a running job sees
ArgsOf(t) == Deref(args[t]).map
CanRun(t) == state[t] = "Running" /\ Resolved(args[t])

Run_Job ==
    \E t \in OfKind("Job") :
        /\ state[t] = "Running"
        /\ Commit(t, Return(None))
        /\ UNCHANGED timeVars

Run_graphmap_split_workflow ==
    \E t \in OfKind("graphmap_split_workflow") :
        /\ CanRun(t)
        /\ \E plan \in graphmap_split_workflow(t, ArgsOf(t)) : Commit(t, plan)
        /\ UNCHANGED timeVars

Run_unzip_gz ==
    \E t \in OfKind("unzip_gz") :
        /\ CanRun(t)
        /\ \E plan \in unzip_gz(t, ArgsOf(t)) : Commit(t, plan)
        /\ UNCHANGED timeVars

\* the lines a .fa_contigs file may hold: the PAF names contigs of the input
\* events only, so the id prefixes are those of the events
LineIds == 0 .. (Cardinality(DOMAIN args[SplitRoot].map.seqIDMap.map) - 1)

\* What rgfa-split is taken to leave behind: any subset of the three files of
\* the first reference contig with any lines in its .fa_contigs, and for
\* every other reference contig nothing, or all three files with a contig of
\* every event.
FirstContig == "chr1"
SplitOutputs ==
    {f \in SUBSET (Contigs \X SplitExts) :
        \A n \in Contigs \ {FirstContig} :
            \/ \A x \in SplitExts : <<n, x>> \in f
            \/ \A x \in SplitExts : <<n, x>> \notin f}
SplitLines(files) ==
    {l \in [Contigs -> SUBSET LineIds] :
        \A n \in Contigs :
            /\ <<n, "fa_contigs">> \notin files => l[n] = {}
            /\ <<n, "fa_contigs">> \in files /\ n # FirstContig => l[n] = LineIds}

Run_split_gfa ==
    \E t \in OfKind("split_gfa") :
        /\ CanRun(t)
        /\ \E files \in SplitOutputs :
           \E lines \in SplitLines(files) :
              \E plan \in split_gfa(t, ArgsOf(t), files, lines) : Commit(t, plan)
        /\ UNCHANGED timeVars

Run_split_fas ==
    \E t \in OfKind("split_fas") :
        /\ CanRun(t)
        /\ \E plan \in split_fas(t, ArgsOf(t)) : Commit(t, plan)
        /\ UNCHANGED timeVars

Run_split_fa_into_contigs ==
    \E t \in OfKind("split_fa_into_contigs") :
        /\ CanRun(t)
        /\ \E plan \in split_fa_into_contigs(t, ArgsOf(t)) : Commit(t, plan)
        /\ UNCHANGED timeVars

Run_gather_fas ==
    \E t \in OfKind("gather_fas") :
        /\ CanRun(t)
        /\ \E plan \in gather_fas(t, ArgsOf(t)) : Commit(t, plan)
        /\ UNCHANGED timeVars

Run_run_batch_align_jobs ==
    \E t \in OfKind("run_batch_align_jobs") :
        /\ CanRun(t)
        /\ \E plan \in run_batch_align_jobs(t, ArgsOf(t)) : Commit(t, plan)
        /\ UNCHANGED timeVars

\* a body that goes on without sleeping
slept_at_once(t) == TRUE

\* time.sleep(delay) has returned: delay seconds after the body began
slept(t) == now >= dispatched[t] + DelayOf(t)

\* time.sleep(delay), then the rest of the body
Run_run_cactus_align ==
    \E t \in OfKind("run_cactus_align") :
        /\ CanRun(t)
        /\ slept(t)
        /\ \E plan \in run_cactus_align(t, ArgsOf(t)) : Commit(t, plan)
        /\ workStart' = [workStart EXCEPT ![t] = now]
        /\ UNCHANGED <<now, dispatched>>

Run_paf_to_lastz ==
    \E t \in OfKind("paf_to_lastz") :
        /\ CanRun(t)
        /\ \E plan \in paf_to_lastz(t, ArgsOf(t)) : Commit(t, plan)
        /\ UNCHANGED timeVars

Run_run_prepend_unique_ids ==
    \E t \in OfKind("run_prepend_unique_ids") :
        /\ CanRun(t)
        /\ \E plan \in run_prepend_unique_ids(t, ArgsOf(t)) : Commit(t, plan)
        /\ UNCHANGED timeVars

Run_run_ingroup_coverage ==
    \E t \in OfKind("run_ingroup_coverage") :
        /\ CanRun(t)
        /\ \E plan \in run_ingroup_coverage(t, ArgsOf(t)) : Commit(t, plan)
        /\ UNCHANGED timeVars

Run_run_setup_phase ==
    \E t \in OfKind("run_setup_phase") :
        /\ CanRun(t)
        /\ \E plan \in run_setup_phase(t, ArgsOf(t)) : Commit(t, plan)
        /\ UNCHANGED timeVars

Run_CactusSetupCheckpoint ==
    \E t \in OfKind("CactusSetupCheckpoint") :
        /\ CanRun(t)
        /\ \E plan \in CactusSetupCheckpoint(t, ArgsOf(t)) : Commit(t, plan)
        /\ UNCHANGED timeVars

Run_run_prepare_hal_export ==
    \E t \in OfKind("run_prepare_hal_export") :
        /\ CanRun(t)
        /\ \E plan \in run_prepare_hal_export(t, ArgsOf(t)) : Commit(t, plan)
        /\ UNCHANGED timeVars

\* the sizes the hal file may have; only export_vg reads the size
HalSizes(t) ==
    IF state[<<"export_vg", t[2], 0>>] = "Absent" THEN {1} ELSE 1 .. MaxSize

Run_exportHal ==
    \E t \in OfKind("exportHal") :
        /\ CanRun(t)
        /\ \E size \in HalSizes(t) :
              \E plan \in exportHal(t, ArgsOf(t), size) : Commit(t, plan)
        /\ UNCHANGED timeVars

Run_export_vg ==
    \E t \in OfKind("export_vg") :
        /\ CanRun(t)
        /\ \E plan \in export_vg(t, ArgsOf(t)) : Commit(t, plan)
        /\ UNCHANGED timeVars

\* the job functions that call an external tool (cactus_call)
ToolKinds ==
    {"unzip_gz", "split_gfa", "split_fa_into_contigs", "paf_to_lastz",
     "run_prepend_unique_ids", "run_ingroup_coverage", "CactusSetupCheckpoint",
     "exportHal"}
CallsTool(t) ==
    \/ Kind(t) \in ToolKinds
    \/ Kind(t) = "export_vg" /\ args[t].map.resource_spec.v

\* cactus_call: the external tool exits nonzero
ToolFails ==
    \E t \in Tasks :
        /\ state[t] = "Running"
        /\ CallsTool(t)
        /\ Commit(t, Raise("ToolInvocationError"))
        /\ UNCHANGED timeVars

\* a second passes, as long as an alignment has yet to begin its work
Tick ==
    /\ leader = "running"
    /\ now < MaxTime
    /\ \E t \in OfKind("run_cactus_align") : state[t] \in {"Pending", "Running"}
    /\ now' = now + 1
    /\ UNCHANGED <<state, graphVars, dispatched, workStart, input, leader, exported,
                   restartVars>>

(***************************************************************************)
(* The main programs.                                                      *)
(***************************************************************************)
NothingExported == [files |-> {}, seqfiles |-> <<>>, chromfile |-> <<>>, err |-> ""]
Root == IF input.prog = "split" THEN SplitRoot ELSE AlignRoot

\* toil.start returns the root job's return value once every job is done
WorkflowDone == leader = "running" /\ SubtreeDone(Root)
Returned == Resolve(result[Root])

\* cactus-graphmap-split: export_split_data
ExportSplit ==
    /\ input.prog = "split"
    /\ WorkflowDone
    /\ \E o \in export_split_data(Returned) :
          /\ exported' = o
          /\ leader' = IF o.err = "" THEN "exported" ELSE "failed"
    /\ UNCHANGED <<state, graphVars, timeVars, input, restartVars>>

\* cactus-align: the exports at the end of main
align_export(options, results_dict) ==
    IF options.checkpointInfo.tag # "none"
    THEN {}
    ELSE UNION {
            {<<<<chrom, "hal">>, results_dict.map[chrom].items[1].id>>}
              \cup (IF options.outVG
                    THEN {<<<<chrom, "vg">>, results_dict.map[chrom].items[2].id>>}
                    ELSE {})
              \cup (IF options.outGFA
                    THEN {<<<<chrom, "gfa.gz">>, results_dict.map[chrom].items[3].id>>}
                    ELSE {}) :
            chrom \in DOMAIN results_dict.map}

ExportAlign ==
    /\ input.prog = "align"
    /\ WorkflowDone
    /\ exported' = [NothingExported EXCEPT
                       !.files = align_export(input.options, Returned)]
    /\ leader' = "exported"
    /\ UNCHANGED <<state, graphVars, timeVars, input, restartVars>>

\* toil.start raises once a job has failed and nothing else can run
WorkflowFails ==
    /\ leader = "running"
    /\ \E t \in Tasks : state[t] = "Failed"
    /\ \A t \in Tasks :
          state[t] # "Running" /\ ~(state[t] = "Pending" /\ Ready(t))
    /\ leader' = "failed"
    /\ UNCHANGED <<state, graphVars, timeVars, input, exported, restartVars>>

\* runCactusGraphMapSplit: the imported inputs
InitSplit ==
    \E events \in SUBSET AllEvents :
    \E gfa_gz \in BOOLEAN, paf_gz \in BOOLEAN :
    \E gfa_size \in 1 .. MaxSize, paf_size \in 1 .. MaxSize :
    \E fa_gz \in BOOLEAN :
        /\ gfa_size + paf_size = MaxSize + 1
        /\ MINIGRAPH_SEQUENCES \in events
        \* compressed fastas are taken with a plain gfa and paf
        /\ fa_gz => ~gfa_gz /\ ~paf_gz
        /\ input = [prog |-> "split"]
        /\ leader = "running"
        /\ state = [t \in Tasks |-> IF t = SplitRoot THEN "Pending" ELSE "Absent"]
        /\ args = [t \in Tasks |->
                     IF t = SplitRoot
                     THEN Dict([seqIDMap |->
                                   Dict([e \in events |->
                                           Tuple(<<Val([name |-> e, gz |-> fa_gz]),
                                                   Blob(<<"import", e>>, EventRank(e))>>)]),
                                gfa_id |-> Blob(<<"import", "gfa">>, gfa_size),
                                gfa_path |-> Val([name |-> "gfa", gz |-> gfa_gz]),
                                paf_id |-> Blob(<<"import", "paf">>, paf_size),
                                paf_path |-> Val([name |-> "paf", gz |-> paf_gz]),
                                ref_contigs |-> Val({})])
                     ELSE None]
        /\ store = {File(<<"import", e>>, {}) : e \in events \cup {"gfa", "paf"}}

\* the chrom files: up to MaxLines lines, blank or naming a chromosome; the
\* chromosomes are named in the order of their first appearance
ChromFiles ==
    {l \in UNION {[1 .. n -> {BlankLine} \cup {ChromLine(c) : c \in Contigs}] :
                     n \in 0 .. MaxLines} :
        \A i \in DOMAIN l :
            l[i].chrom = ContigOrder[2] =>
                \E j \in 1 .. (i - 1) : l[j].chrom = ContigOrder[1]}

\* The options of cactus-align.  One alignment is run with every combination
\* of the options that shape its graph; a batch with those of BatchOptions.
AlignOptions ==
    [batch : BOOLEAN, stagger : 0 .. MaxStagger, pafInput : BOOLEAN,
     usePafSecondaries : BOOLEAN, outVG : BOOLEAN, outGFA : BOOLEAN,
     nonCactusInput : {FALSE},
     checkpointInfo : {None, Val([region |-> "region", path |-> <<"outHal">>])}]
BatchOptions(o) ==
    /\ ~o.pafInput /\ ~o.usePafSecondaries /\ ~o.outVG /\ ~o.outGFA
    /\ o.checkpointInfo = None

\* main of cactus-align, up to toil.start
InitAlign ==
    \E options \in AlignOptions :
    \E lines \in ChromFiles :
    \E og_fragments \in BOOLEAN, secondary \in BOOLEAN :
        LET made == make_batch_align_jobs(options, lines, og_fragments, secondary)
        IN  /\ options.batch => BatchOptions(options) /\ og_fragments
            /\ ~options.batch => lines = <<>>
            /\ options.usePafSecondaries => options.pafInput
            \* the .secondary file is looked for only without --pafInput
            /\ options.batch \/ options.pafInput => ~secondary
            /\ input = [prog |-> "align", options |-> options, lines |-> lines,
                        og_fragments |-> og_fragments, secondary |-> secondary]
            /\ leader = IF made.err = "" THEN "running" ELSE "failed"
            /\ state = [t \in Tasks |->
                          IF t = AlignRoot /\ made.err = "" THEN "Pending"
                          ELSE "Absent"]
            /\ args = [t \in Tasks |->
                         IF t = AlignRoot THEN Dict([jobs_dict |-> made.jobs])
                         ELSE None]
            \* toil.importFile of every input of every job
            /\ store = {File(id, {}) : id \in BlobIdsIn(made.jobs)}

InitRest ==
    /\ children = [t \in Tasks |-> {}]
    /\ followOn = [t \in Tasks |-> {}]
    /\ result = [t \in Tasks |-> None]
    /\ disk = [t \in Tasks |-> 0]
    /\ memory = [t \in Tasks |-> 0]
    /\ error = [t \in Tasks |-> ""]
    /\ sink = IF input.prog = "align" THEN main_checks_bucket(input.options, {})
              ELSE {}
    /\ now = 0
    /\ dispatched = [t \in OfKind("run_cactus_align") |-> NoTime]
    /\ workStart = [t \in OfKind("run_cactus_align") |-> NoTime]
    /\ exported = NothingExported
    /\ checkpointLog = [t \in Tasks |-> <<>>]
    /\ restarts = 0
    /\ resumedWith = {}

Init == (InitSplit \/ InitAlign) /\ InitRest

Next ==
    \/ Start
    \/ Run_Job
    \/ Run_graphmap_split_workflow
    \/ Run_unzip_gz
    \/ Run_split_gfa
    \/ Run_split_fas
    \/ Run_split_fa_into_contigs
    \/ Run_gather_fas
    \/ Run_run_batch_align_jobs
    \/ Run_run_cactus_align
    \/ Run_paf_to_lastz
    \/ Run_run_prepend_unique_ids
    \/ Run_run_ingroup_coverage
    \/ Run_run_setup_phase
    \/ Run_CactusSetupCheckpoint
    \/ Run_run_prepare_hal_export
    \/ Run_exportHal
    \/ Run_export_vg
    \/ ToolFails
    \/ Tick
    \/ ExportSplit
    \/ ExportAlign
    \/ WorkflowFails

Spec == Init /\ [][Next]_vars

(***************************************************************************)
(* gather_fas on its own: the workflow hands it tables that were all made  *)
(* from one table of split_gfa, so to see what it does with tables that do *)
(* not agree it is started here on any pair of tables.                     *)
(***************************************************************************)
GatherJob == T("gather_fas", "")

InitGather ==
    \E events \in {es \in SUBSET AllEvents : MINIGRAPH_SEQUENCES \in es} :
    \E attrs \in [Contigs -> SUBSET SplitExts] :
    \E have \in [events -> SUBSET Contigs] :
        /\ input = [prog |-> "split"]
        /\ leader = "running"
        /\ state = [t \in Tasks |->
                      IF t = SplitRoot THEN "Succeeded"
                      ELSE IF t = GatherJob THEN "Running" ELSE "Absent"]
        /\ args = [t \in Tasks |->
                     IF t = GatherJob
                     THEN Dict([seq_id_map |-> Dict([e \in events |-> None]),
                                output_id_map |->
                                    Dict([rc \in {n \in Contigs : attrs[n] # {}} |->
                                            Dict([x \in attrs[rc] |->
                                                    Blob(<<rc, x>>, 1)])]),
                                contig_fa_map |->
                                    Dict([e \in events |->
                                            Dict([rc \in have[e] |->
                                                    Blob(<<e, rc, "fa">>, 1)])])])
                     ELSE None]
        /\ children = [t \in Tasks |-> IF t = SplitRoot THEN {GatherJob} ELSE {}]
        /\ result = [t \in Tasks |->
                       IF t = SplitRoot THEN Promise(GatherJob, Whole) ELSE None]
        /\ followOn = [t \in Tasks |-> {}]
        /\ disk = [t \in Tasks |-> 0]
        /\ memory = [t \in Tasks |-> 0]
        /\ error = [t \in Tasks |-> ""]
        /\ store = {}
        /\ sink = {}
        /\ now = 0
        /\ dispatched = [t \in OfKind("run_cactus_align") |-> NoTime]
        /\ workStart = [t \in OfKind("run_cactus_align") |-> NoTime]
        /\ exported = NothingExported
        /\ checkpointLog = [t \in Tasks |-> IF t = SplitRoot THEN <<"Succeeded">> ELSE <<>>]
        /\ restarts = 0
        /\ resumedWith = {}

SplitInit == InitGather \/ (InitSplit /\ InitRest)

SplitNext ==
    \/ Start
    \/ Run_Job
    \/ Run_graphmap_split_workflow
    \/ Run_unzip_gz
    \/ Run_split_gfa
    \/ Run_split_fas
    \/ Run_split_fa_into_contigs
    \/ Run_gather_fas
    \/ ToolFails
    \/ ExportSplit
    \/ WorkflowFails

SplitSpec == SplitInit /\ [][SplitNext]_vars

(***************************************************************************)
(* Interruption and restart.  The leader may be stopped at any moment; the *)
(* jobs that were running are lost with it.  Started again with --restart, *)
(* the main program calls toil.restart() in place of building the jobs and *)
(* toil.start(), and goes on to the same export.                           *)
(***************************************************************************)
TopLevel == children[Root]

Interrupt ==
    /\ leader = "running"
    /\ restarts < MaxRestarts
    /\ leader' = "interrupted"
    /\ resumedWith' = {t \in TopLevel : SubtreeDone(t)}
    /\ UNCHANGED <<state, graphVars, timeVars, input, exported, checkpointLog,
                   restarts>>

\* a restart that takes the jobs that were running for done
restart_running_as_done(s) ==
    IF s = "Running" THEN "Succeeded" ELSE IF s = "Failed" THEN "Pending" ELSE s

\* a restart that runs every job of the graph again
restart_from_scratch(s) == IF s = "Absent" THEN s ELSE "Pending"

\* the state a job has after the restart: what the log has as succeeded
\* stays so, what was running or had failed is to be run from scratch
restart_state(s) == IF s \in {"Running", "Failed"} THEN "Pending" ELSE s

\* main run again with --restart, up to toil.restart()
Restart ==
    /\ leader = "interrupted"
    /\ leader' = "running"
    /\ restarts' = restarts + 1
    /\ state' = [t \in Tasks |-> restart_state(state[t])]
    /\ error' = [t \in Tasks |-> IF state[t] = "Failed" THEN "" ELSE error[t]]
    /\ dispatched' = [t \in DOMAIN dispatched |->
                        IF state[t] = "Running" THEN NoTime ELSE dispatched[t]]
    /\ sink' = IF input.prog = "align" THEN main_checks_bucket(input.options, sink)
               ELSE sink
    /\ UNCHANGED <<children, followOn, args, result, disk, memory, store,
                   now, workStart, input, exported, checkpointLog, resumedWith>>

\* the runs that may be interrupted: those without a stagger, so that the
\* clock plays no part
RestartInit == Init /\ (input.prog = "align" => input.options.stagger = 0)

RestartNext ==
    \/ Start
    \/ Run_Job
    \/ Run_graphmap_split_workflow
    \/ Run_unzip_gz
    \/ Run_split_gfa
    \/ Run_split_fas
    \/ Run_split_fa_into_contigs
    \/ Run_gather_fas
    \/ Run_run_batch_align_jobs
    \/ Run_run_cactus_align
    \/ Run_paf_to_lastz
    \/ Run_run_prepend_unique_ids
    \/ Run_run_ingroup_coverage
    \/ Run_run_setup_phase
    \/ Run_CactusSetupCheckpoint
    \/ Run_run_prepare_hal_export
    \/ Run_exportHal
    \/ Run_export_vg
    \/ ToolFails
    \/ ExportSplit
    \/ ExportAlign
    \/ WorkflowFails
    \/ Interrupt
    \/ Restart

RestartSpec == RestartInit /\ [][RestartNext]_vars

(***************************************************************************)
(* Properties.                                                             *)
(***************************************************************************)
Started(t) == state[t] \in {"Running", "Succeeded", "Failed"}
AbsentOrSucceeded(t) == state[t] \in {"Absent", "Succeeded"}
InputEvents == DOMAIN args[SplitRoot].map.seqIDMap.map
IsSplit == input.prog = "split"
\* the keys of the alignments of the run
RunKeys == {t[2] : t \in OfKind("run_cactus_align")}

\* C1: a follow-on has started only if its predecessor has succeeded and
\* everything under the predecessor's children (their children and follow-ons,
\* those added while running included) has succeeded.  In the split workflow
\* split_gfa has started only if no unzip_gz job is unfinished, and
\* gather_fas only if the split_fa_into_contigs job of every input event has
\* succeeded; in an alignment run_prepend_unique_ids has started only if
\* paf_to_lastz is not unfinished, exportHal only if the setup checkpoint
\* has succeeded, and export_vg only if exportHal has succeeded.
C1_FollowOnAfterSubtree ==
    /\ \A p \in Tasks : \A f \in followOn[p] :
          Started(f) =>
              state[p] = "Succeeded" /\ \A c \in children[p] : SubtreeDone(c)
    /\ IsSplit /\ Started(T("split_gfa", "")) =>
          \A u \in OfKind("unzip_gz") : AbsentOrSucceeded(u)
    /\ IsSplit /\ Started(T("split_fas", "")) =>
          state[T("split_gfa", "")] = "Succeeded"
    /\ IsSplit /\ Started(GatherJob) /\ args[SplitRoot] # None =>
          \A e \in InputEvents :
              state[T("split_fa_into_contigs", e)] = "Succeeded"
    /\ \A k \in RunKeys :
          /\ Started(T("run_prepend_unique_ids", k)) =>
                AbsentOrSucceeded(T("paf_to_lastz", k))
          /\ Started(T("exportHal", k)) =>
                state[T("CactusSetupCheckpoint", k)] = "Succeeded"
          /\ Started(T("export_vg", k)) => state[T("exportHal", k)] = "Succeeded"

\* C1 witness: gather_fas is running after an unzip_gz job and the
\* split_fa_into_contigs jobs of two events have succeeded
C1_Witness ==
    /\ IsSplit
    /\ state[GatherJob] = "Running"
    /\ state[T("unzip_gz", "gfa")] = "Succeeded"
    /\ GatherJob \in followOn[T("split_fas", "")]
    /\ \A e \in AllEvents : state[T("split_fa_into_contigs", e)] = "Succeeded"

\* C2: every promise in the arguments of a running job, at any depth, has
\* its value
C2_RunningHasResolvedInputs ==
    \A t \in Tasks : state[t] = "Running" => Resolved(args[t])

\* C2 witness: run_prepend_unique_ids is running with promises on both slots
\* of paf_to_lastz inside its cactusWorkflowArguments
C2_Witness ==
    \E k \in RunKeys :
        /\ state[T("run_prepend_unique_ids", k)] = "Running"
        /\ {Promise(T("paf_to_lastz", k), 0), Promise(T("paf_to_lastz", k), 1)}
              \subseteq PromisesIn(args[T("run_prepend_unique_ids", k)])

\* the promises held by the arguments and the return values of the jobs
PromisesAround ==
    UNION {PromisesIn(args[t]) \cup PromisesIn(result[t]) : t \in Tasks}

SplitGfaJob == T("split_gfa", "")
\* the reference contigs split_gfa found
DiscoveredKeys == DOMAIN result[SplitGfaJob].map

\* C4: the table gather_fas returns, and so the table the workflow returns,
\* has the reference contigs split_gfa found as its keys, no more and no less
C4_GatheredKeysAreDiscoveredKeys ==
    /\ input.prog = "split" /\ state[SplitGfaJob] = "Succeeded"
         /\ state[GatherJob] = "Succeeded" =>
            DOMAIN result[GatherJob].map = DiscoveredKeys
    /\ input.prog = "split" /\ state[SplitGfaJob] = "Succeeded" /\ WorkflowDone =>
            DOMAIN Returned.map = DiscoveredKeys

\* C4 witness: the workflow is done with two source events and two reference
\* contigs, one of them without a paf
C4_Witness ==
    /\ input.prog = "split" /\ state[SplitGfaJob] = "Succeeded"
    /\ WorkflowDone
    /\ DiscoveredKeys = Contigs
    /\ DOMAIN result[SplitGfaJob].map[FirstContig].map = {"gfa", "fa_contigs"}
    /\ InputEvents = AllEvents

\* C5, as the claim states it: every key of the gathered table holds a gfa,
\* a paf and an fa table with one entry for every source event
C5_EveryKeyHoldsGfaPafFa ==
    input.prog = "split" /\ args[SplitRoot] # None
      /\ state[GatherJob] = "Succeeded" =>
        \A rc \in DOMAIN result[GatherJob].map :
            LET attrs == Resolve(result[GatherJob]).map[rc].map
            IN  /\ {"gfa", "paf", "fa"} \subseteq DOMAIN attrs
                /\ DOMAIN attrs.fa.map = InputEvents

\* the reference contigs in which the job of event e found no contig of e
ZeroMatch(e) ==
    LET t == T("split_fa_into_contigs", e)
        a == Resolve(args[t]).map
    IN  {rc \in DOMAIN a.split_id_map.map :
            /\ "fa_contigs" \in DOMAIN a.split_id_map.map[rc].map
            /\ \A l \in Content(a.split_id_map.map[rc].map.fa_contigs.id) :
                  l # a.cactus_id.v}

\* C6: a split_fa_into_contigs job that has succeeded with a reference contig
\* without any contig of its event is the job of __MINIGRAPH_SEQUENCES__, and
\* its entry for that reference contig is the fasta it was given; the job of
\* any other event has not succeeded, and a job that failed an assertion is
\* the job of another event with such a reference contig
C6_ZeroMatchPolicy ==
    \A e \in {x \in AllEvents : IsSplit} :
        LET t == T("split_fa_into_contigs", e)
        IN  /\ state[t] = "Succeeded" =>
                  /\ ZeroMatch(e) # {} => e = MINIGRAPH_SEQUENCES
                  /\ \A rc \in DOMAIN result[t].map :
                        result[t].map[rc] =
                            IF rc \in ZeroMatch(e)
                            THEN Resolve(args[t]).map.fa_id
                            ELSE Blob(<<e, rc, "fa">>, 1)
            /\ state[t] = "Failed" /\ error[t] = "AssertionError" =>
                  ZeroMatch(e) # {} /\ e # MINIGRAPH_SEQUENCES

\* C6 witness: for one reference contig without any contig of either event,
\* the job of __MINIGRAPH_SEQUENCES__ has returned its whole fasta and the
\* job of the other event has failed
C6_Witness ==
    LET sentinel == T("split_fa_into_contigs", MINIGRAPH_SEQUENCES)
        other == T("split_fa_into_contigs", "A")
    IN  /\ IsSplit
        /\ state[sentinel] = "Succeeded"
        /\ FirstContig \in ZeroMatch(MINIGRAPH_SEQUENCES)
        /\ result[sentinel].map[FirstContig] = Blob(<<"import", MINIGRAPH_SEQUENCES>>, 2)
        /\ state[other] = "Failed"
        /\ error[other] = "AssertionError"
        /\ FirstContig \in ZeroMatch("A")

\* a reference contig of split_gfa's table is not in the table of some event
MissingFromEvent ==
    /\ IsSplit
    /\ args[GatherJob] # None
    /\ Resolved(args[GatherJob])
    /\ LET a == Resolve(args[GatherJob]).map
       IN  \E rc \in DOMAIN a.output_id_map.map, e \in DOMAIN a.contig_fa_map.map :
               rc \notin DOMAIN a.contig_fa_map.map[e].map
\* a reference contig of split_gfa's table has no fa_contigs
LacksFaContigs ==
    /\ IsSplit
    /\ state[SplitGfaJob] = "Succeeded"
    /\ \E rc \in DiscoveredKeys : "fa_contigs" \notin DOMAIN result[SplitGfaJob].map[rc].map

\* C7: when a reference contig of split_gfa's table is not in the table of
\* some event, gather_fas does not succeed and fails with a KeyError; when a
\* reference contig has no fa_contigs, no split_fa_into_contigs job succeeds
\* and gather_fas never starts; either way no table is returned and nothing
\* is exported
C7_MissingKeyFailsLoudly ==
    /\ MissingFromEvent =>
          /\ state[GatherJob] \in {"Pending", "Running", "Failed"}
          /\ state[GatherJob] = "Failed" => error[GatherJob] = "KeyError"
    /\ LacksFaContigs =>
          /\ \A t \in OfKind("split_fa_into_contigs") : state[t] # "Succeeded"
          /\ \A t \in OfKind("split_fa_into_contigs") :
                state[t] = "Failed" =>
                    error[t] \in {"KeyError", "AssertionError", "ToolInvocationError"}
          /\ ~Started(GatherJob)
    /\ MissingFromEvent \/ LacksFaContigs =>
          /\ result[GatherJob] = None
          /\ leader # "exported"
          /\ exported = NothingExported

\* C7 witness: gather_fas has failed with a KeyError on a reference contig
\* that one event's table does not have, and the run has failed
C7_Witness ==
    /\ MissingFromEvent
    /\ state[GatherJob] = "Failed"
    /\ error[GatherJob] = "KeyError"
    /\ leader = "failed"

\* the export_vg job of alignment k after n re-submissions
ExportVg(k, n) == <<"export_vg", k, n>>
VgOutputs(k) == {<<k, "vg">>, <<k, "gfa.gz">>}

\* C8: the export_vg job an alignment creates is unsized; once it has
\* succeeded it has one child, a sized export_vg job whose promise it
\* returned, and it has written nothing; the sized job has no child and no
\* follow-on; no export_vg job is submitted a second time
C8_OneResubmission ==
    \A k \in RunKeys :
        LET unsized == ExportVg(k, 0)
            sized == ExportVg(k, 1)
        IN  /\ \A n \in 2 .. MaxRedispatch : state[ExportVg(k, n)] = "Absent"
            /\ state[unsized] # "Absent" => ~args[unsized].map.resource_spec.v
            /\ state[sized] # "Absent" => args[sized].map.resource_spec.v
            /\ state[unsized] = "Succeeded" =>
                  /\ children[unsized] = {sized}
                  /\ followOn[unsized] = {}
                  /\ state[sized] # "Absent"
                  /\ result[unsized] = Promise(sized, Whole)
            /\ state[sized] = "Succeeded" =>
                  children[sized] = {} /\ followOn[sized] = {}
            /\ (\E f \in store : f.id \in VgOutputs(k)) => state[sized] = "Succeeded"

\* C8 witness: the unsized and the sized export_vg job of an alignment have
\* both succeeded
C8_Witness ==
    \E k \in RunKeys :
        /\ state[ExportVg(k, 0)] = "Succeeded"
        /\ state[ExportVg(k, 1)] = "Succeeded"
        /\ \E f \in store : f.id \in VgOutputs(k)

\* C9: the sized export_vg job is created with the hal_id, configWrapper,
\* doVG, doGFA and checkpointInfo the unsized job was run with, and once it
\* has succeeded the promises on slot 0 and slot 1 of the unsized job, which
\* run_cactus_align returns, give the vg_id and the gfa_id it returned
C9_UnsizedResultIsSizedResult ==
    \A k \in RunKeys :
        LET unsized == ExportVg(k, 0)
            sized == ExportVg(k, 1)
            align == T("run_cactus_align", k)
        IN  /\ state[sized] # "Absent" =>
                  \A x \in {"hal_id", "configWrapper", "doVG", "doGFA", "checkpointInfo"} :
                      args[sized].map[x] = Deref(args[unsized]).map[x]
            /\ state[sized] = "Succeeded" =>
                  /\ Deref(Promise(unsized, 0)) = result[sized].items[1]
                  /\ Deref(Promise(unsized, 1)) = result[sized].items[2]
                  /\ result[align].items[2] = Promise(unsized, 0)
                  /\ result[align].items[3] = Promise(unsized, 1)

\* C9 witness: the sized job has returned a vg and no gfa, and slot 0 of the
\* unsized job's promise gives that vg
C9_Witness ==
    \E k \in RunKeys :
        /\ state[ExportVg(k, 1)] = "Succeeded"
        /\ result[ExportVg(k, 1)] = Tuple(<<Blob(<<k, "vg">>, 1), None>>)
        /\ Deref(Promise(ExportVg(k, 0), 0)) = Blob(<<k, "vg">>, 1)
        /\ Deref(Promise(ExportVg(k, 0), 1)) = None

\* C10, as the claim states it: in a batch with a stagger whose chrom file
\* names every chromosome once, the alignments of two consecutive lines begin
\* their work at least the stagger apart, the later line later.  Only the
\* alignments that began their work the moment their delay ran out are
\* looked at, so that what is left to vary is when each was dispatched.
C10_StaggerSpacing ==
    input.prog = "align" /\ input.options.batch /\ input.options.stagger > 0 =>
        LET lines == input.lines
            launched == Launched(lines, Len(lines))
            job(i) == T("run_cactus_align", lines[i].chrom)
            prompt(t) ==
                /\ workStart[t] # NoTime
                /\ workStart[t] = dispatched[t] + DelayOf(t)
        IN  \A i \in launched, j \in launched :
                /\ i < j
                /\ \A m \in launched : ~(i < m /\ m < j)
                /\ \A m \in launched, n \in launched :
                      m # n => lines[m].chrom # lines[n].chrom
                /\ prompt(job(i))
                /\ prompt(job(j))
                => workStart[job(j)] - workStart[job(i)] >= input.options.stagger

\* the chromosomes a chrom file names, and the first line that names one
ChromsOf(lines) == {lines[i].chrom : i \in Launched(lines, Len(lines))}
FirstLine(lines, c) ==
    CHOOSE i \in Launched(lines, Len(lines)) :
        /\ lines[i].chrom = c
        /\ \A j \in Launched(lines, Len(lines)) : lines[j].chrom = c => i <= j
\* the place of the job of chromosome c among the jobs of the dictionary
\* make_batch_align_jobs returns, which keeps its keys in the order they
\* were first set
LaunchRank(lines, c) ==
    Cardinality({d \in ChromsOf(lines) : FirstLine(lines, d) < FirstLine(lines, c)})

IsBatch == input.prog = "align" /\ input.options.batch

\* C11, as the claim states it: in a batch the N-th alignment job that is
\* launched, counted from 0, has a delay of N times --stagger, whatever the
\* chrom file: blank lines and repeated names included
C11_DelayIsRankTimesStagger ==
    IsBatch =>
        \A t \in OfKind("run_cactus_align") :
            state[t] # "Absent" =>
                DelayOf(t) = LaunchRank(input.lines, t[2]) * input.options.stagger

\* a run_cactus_align job is in its delay: started, its delay not yet over
InDelay(t) == dispatched[t] # NoTime /\ now < dispatched[t] + DelayOf(t)

\* C12: a run_cactus_align job is dispatched when the executor starts it,
\* whatever its delay; while its delay is not over it is Running, has no
\* child and no follow-on, has returned nothing, and no job or file of its
\* alignment exists; its work begins no earlier than its delay after it was
\* dispatched
C12_DelayServedInBody ==
    \A t \in OfKind("run_cactus_align") :
        /\ Started(t) <=> dispatched[t] # NoTime
        /\ InDelay(t) =>
              /\ state[t] = "Running"
              /\ children[t] = {} /\ followOn[t] = {}
              /\ result[t] = None
              /\ workStart[t] = NoTime
              /\ \A u \in Tasks \ {t} : u[2] = t[2] => state[u] = "Absent"
              /\ \A f \in store : f.id[1] # t[2]
        /\ workStart[t] # NoTime =>
              /\ state[t] = "Succeeded"
              /\ workStart[t] >= dispatched[t] + DelayOf(t)

\* C12 witness: an alignment with a delay was dispatched at once and is
\* Running in its delay while the work of another alignment has begun
C12_Witness ==
    \E t \in OfKind("run_cactus_align"), u \in OfKind("run_cactus_align") :
        /\ state[t] = "Running"
        /\ DelayOf(t) > 0
        /\ dispatched[t] = 0
        /\ InDelay(t)
        /\ workStart[u] # NoTime
        /\ state[T("Job", u[2])] = "Succeeded"

\* The table an uninterrupted run of cactus-graphmap-split returns when
\* rgfa-split leaves these files with these lines: the files of every
\* reference contig, and for every event its contigs of the reference contig
\* or, if it has none, the fasta it came with.
SplitTable(files, lines) ==
    LET seqIDMap == args[SplitRoot].map.seqIDMap.map
        events == DOMAIN seqIDMap
        ids == cactus_id_map(events)
        names == {n \in Contigs : \E x \in SplitExts : <<n, x>> \in files}
        exts(n) == {x \in SplitExts : <<n, x>> \in files}
        fa(rc, e) == IF ids[e] \in lines[rc] THEN Blob(<<e, rc, "fa">>, 1)
                     ELSE seqIDMap[e].items[2]
    IN  Dict([rc \in names |->
                Dict([x \in exts(rc) \cup {"fa"} |->
                        IF x = "fa" THEN Dict([e \in events |-> fa(rc, e)])
                        ELSE Blob(<<rc, x>>, 1)])])
\* rgfa-split left what no job fails on
SplitSucceeds(files, lines) ==
    LET events == DOMAIN args[SplitRoot].map.seqIDMap.map
        ids == cactus_id_map(events)
    IN  \A n \in Contigs :
            (\E x \in SplitExts : <<n, x>> \in files) =>
                /\ <<n, "fa_contigs">> \in files
                /\ \A e \in events \ {no_contig_event} : ids[e] \in lines[n]
SplitTables ==
    {SplitTable(f[1], f[2]) :
        f \in {g \in UNION {{<<h, l>> : l \in SplitLines(h)} : h \in SplitOutputs} :
                 SplitSucceeds(g[1], g[2])}}

\* The tables an uninterrupted run of cactus-align returns: for every key of
\* the dictionary of jobs the hal, and the vg and the gfa that were asked for.
AlignTables ==
    LET keys == DOMAIN args[AlignRoot].map.jobs_dict.map
        o == input.options
        sizes == IF o.outVG \/ o.outGFA THEN 1 .. MaxSize ELSE {1}
    IN  {Dict([c \in keys |->
                 Tuple(<<Blob(<<c, "hal">>, sz[c]),
                         IF o.outVG THEN Blob(<<c, "vg">>, 1) ELSE None,
                         IF o.outGFA THEN Blob(<<c, "gfa.gz">>, 1) ELSE None>>)]) :
            sz \in [keys -> sizes]}

UninterruptedTables == IF IsSplit THEN SplitTables ELSE AlignTables

\* the export the main program applies to the table toil.start() returned
ExportsOf(table) ==
    IF IsSplit THEN export_split_data(table)
    ELSE {[NothingExported EXCEPT !.files = align_export(input.options, table)]}

\* C13: whether or not the run was interrupted and restarted, and however
\* many of its top-level tasks were complete at the interruption, the table
\* the workflow returns is a table of an uninterrupted run, with all of its
\* keys, and what is exported is what the export step makes of that table
C13_RestartReturnsSameTable ==
    /\ WorkflowDone => Returned \in UninterruptedTables
    /\ leader = "exported" =>
          /\ Returned \in UninterruptedTables
          /\ exported \in ExportsOf(Returned)

\* C13 witness: a batch of two alignments was interrupted when one of them
\* was complete and the other was not, was restarted, and has exported the
\* table of both
C13_Witness ==
    /\ IsBatch
    /\ restarts = 1
    /\ resumedWith = {T("run_cactus_align", "chr1")}
    /\ leader = "exported"
    /\ DOMAIN Returned.map = Contigs
    /\ {f[1] : f \in exported.files} = {<<"chr1", "hal">>, <<"chr2", "hal">>}

\* the log has t as succeeded
LoggedSucceeded(t) ==
    \E i \in DOMAIN checkpointLog[t] : checkpointLog[t][i] = "Succeeded"

\* C14: a job the log has as succeeded stays succeeded, with the value it
\* returned and its promise resolvable as before, through every step, the
\* restart included; the restart makes Pending only jobs that were Pending,
\* Running or Failed, creates no job, adds no edge, changes no argument and
\* imports nothing
C14_RestartKeepsSucceeded ==
    [][/\ \A t \in Tasks :
             LoggedSucceeded(t) =>
                 /\ state[t] = "Succeeded"
                 /\ state'[t] = "Succeeded"
                 /\ result'[t] = result[t]
                 /\ Resolved(Promise(t, Whole)) => Resolved(Promise(t, Whole))'
       /\ leader = "interrupted" /\ leader' = "running" =>
             /\ \A t \in Tasks :
                   /\ state'[t] = "Pending" =>
                         state[t] \in {"Pending", "Running", "Failed"}
                   /\ state'[t] \in {"Pending", "Succeeded", "Absent"}
                   /\ state[t] = "Absent" <=> state'[t] = "Absent"
             /\ children' = children /\ followOn' = followOn
             /\ args' = args /\ store' = store]_vars

\* C14 witness: after a restart the workflow is done; one top-level task was
\* complete at the interruption, and a job that had failed before it was run
\* again and succeeded
C14_Witness ==
    /\ restarts = 1
    /\ WorkflowDone
    /\ resumedWith # {}
    /\ \E t \in Tasks : checkpointLog[t] = <<"Failed", "Succeeded">>
    /\ \E t \in resumedWith : checkpointLog[t] = <<"Succeeded">>

Terminal == {"Succeeded", "Failed"}

\* C15: the log of a task has one entry for each time the task reached a
\* terminal state and no other: a step adds an entry for a task exactly when
\* it takes the task to Succeeded or Failed, and the entry is that state; no
\* step removes or changes an entry; a task that was never run to its end
\* has no entry; every entry but the last is a failure that a restart made
\* good for
C15_LogOncePerTerminalState ==
    [][\A t \in Tasks :
          /\ state[t] \in Terminal =>
                checkpointLog[t] # <<>>
                  /\ checkpointLog[t][Len(checkpointLog[t])] = state[t]
          /\ state[t] = "Absent" => checkpointLog[t] = <<>>
          /\ restarts = 0 /\ state[t] \notin Terminal => checkpointLog[t] = <<>>
          /\ Len(checkpointLog[t]) <= restarts + 1
          /\ \A i \in 1 .. (Len(checkpointLog[t]) - 1) : checkpointLog[t][i] = "Failed"
          /\ IF state[t] \notin Terminal /\ state'[t] \in Terminal
             THEN checkpointLog'[t] = Append(checkpointLog[t], state'[t])
             ELSE checkpointLog'[t] = checkpointLog[t]]_vars

\* C15 witness: a task that failed, was run again after a restart and
\* succeeded has both entries, a task that has failed since has one, and a
\* running task has none
C15_Witness ==
    /\ \E t \in Tasks :
          state[t] = "Succeeded" /\ checkpointLog[t] = <<"Failed", "Succeeded">>
    /\ \E t \in Tasks : state[t] = "Failed" /\ checkpointLog[t] = <<"Failed">>
    /\ \E t \in Tasks : state[t] = "Running" /\ checkpointLog[t] = <<>>

\* the tasks whose arguments hold a promise on p
HoldersOf(p) == {t \in Tasks : \E q \in PromisesIn(args[t]) : q.task = p}
\* the children of the parent of p, p aside
SiblingsOf(p) == UNION {children[q] : q \in {r \in Tasks : p \in children[r]}} \ {p}
\* the body of s can end in the next step
CanEnd(s) == ENABLED (Next /\ state'[s] # state[s])
CanSucceed(s) == ENABLED (Next /\ state'[s] = "Succeeded")

\* C16: beside a failed task, its follow-ons and the tasks that hold a
\* promise on it are Pending; if split_gfa has failed, split_fas and
\* gather_fas are Pending and nothing is exported; a sibling of a failed task
\* that is running is left to run: the run goes on, and the sibling's body
\* can end in the next step unless it is still in its delay
C16_FailureBlocksDependents ==
    /\ \A p \in Tasks :
          state[p] = "Failed" =>
              /\ \A f \in followOn[p] \cup HoldersOf(p) : state[f] = "Pending"
              /\ \A s \in SiblingsOf(p) :
                    state[s] = "Running" /\ leader # "interrupted" =>
                        /\ leader = "running"
                        /\ (Kind(s) = "run_cactus_align" /\ InDelay(s)) \/ CanEnd(s)
    /\ IsSplit /\ state[SplitGfaJob] = "Failed" =>
          /\ state[T("split_fas", "")] = "Pending"
          /\ state[GatherJob] = "Pending"
          /\ leader # "exported"
          /\ exported = NothingExported

\* C16 witness: split_fa_into_contigs has failed for one event while its
\* sibling, the job of the other event, is running and can succeed, and
\* gather_fas, which holds split_fas's promise on both, is Pending
C16_Witness ==
    LET failed == T("split_fa_into_contigs", "A")
        sibling == T("split_fa_into_contigs", MINIGRAPH_SEQUENCES)
    IN  /\ IsSplit
        /\ state[failed] = "Failed"
        /\ sibling \in SiblingsOf(failed)
        /\ state[sibling] = "Running"
        /\ CanSucceed(sibling)
        /\ state[GatherJob] = "Pending"

IsAlign == input.prog = "align"
\* make_align_job looked for a file that is not there, and its import raised
ImportFailed ==
    /\ IsAlign
    /\ DOMAIN args[AlignRoot].map.jobs_dict.map # {}
    /\ \/ ~input.og_fragments
       \/ ~input.options.pafInput /\ ~input.secondary

\* C17, as the claim states it: a failure is followed by more work only when
\* it is the missing contig of __MINIGRAPH_SEQUENCES__; a job that failed, a
\* failed assertion and a failed import while the jobs are built all end the
\* run as failed: nothing is exported after a job has failed or after an
\* import has failed
C17_FailuresSurface ==
    /\ (\E t \in Tasks : state[t] = "Failed") => leader # "exported"
    /\ ImportFailed => leader # "exported"

\* the tasks t is a child or a follow-on of
Parents(t) == {p \in Tasks : t \in children[p] \cup followOn[p]}
Successors(S) == UNION {children[x] \cup followOn[x] : x \in S}
\* the tasks reached from those of S in n steps or fewer along the edges
RECURSIVE ReachFrom(_, _)
ReachFrom(S, n) ==
    IF n = 0 \/ Successors(S) \subseteq S THEN S
    ELSE ReachFrom(S \cup Successors(S), n - 1)
\* the tasks below t: its children and follow-ons, theirs, and so on
Below(t) == ReachFrom(Successors({t}), Cardinality(Tasks))

\* C18: no task is below itself, so no child or follow-on edge leads to the
\* task it starts from or to one above it; every task that exists but the
\* root has exactly one parent, the root has none, and an edge joins tasks
\* that exist
C18_GraphIsATree ==
    \A t \in Tasks :
        /\ t \notin Below(t)
        /\ state[t] # "Absent" /\ t # Root => Cardinality(Parents(t)) = 1
        /\ t = Root => Parents(t) = {}
        /\ \A c \in children[t] \cup followOn[t] :
              state[t] # "Absent" /\ state[c] # "Absent"

\* C18 witness: an alignment is done whose graph grew while it ran: the
\* setup checkpoint was added by run_setup_phase and the sized export_vg by
\* the unsized one, each under the job that added it
C18_Witness ==
    \E k \in RunKeys :
        /\ SubtreeDone(T("run_cactus_align", k))
        /\ Parents(T("CactusSetupCheckpoint", k)) = {T("run_setup_phase", k)}
        /\ Parents(ExportVg(k, 1)) = {ExportVg(k, 0)}
        /\ Parents(ExportVg(k, 0)) = {T("exportHal", k)}
        /\ ExportVg(k, 1) \in Below(AlignRoot)


(***************************************************************************)
(* The lifetime of the blobs.  A blob written with cleanup enabled is      *)
(* deleted once the job that wrote it and all the successors of that job   *)
(* have finished; any other blob stays until the workflow is cleaned.      *)
(***************************************************************************)
\* a release as soon as the writing job itself has succeeded
released_after_job(f) == f.cleanup # NoTask /\ state[f.cleanup] = "Succeeded"

\* writeGlobalFile(path, cleanup=True): the file is gone once the job and
\* its successors are done
Released(f) == f.cleanup # NoTask /\ SubtreeDone(f.cleanup)

Retrievable(id) == \E f \in store : f.id = id /\ ~Released(f)

\* the blobs the body of the running task t reads (readGlobalFile)
Reads(t) ==
    LET a == ArgsOf(t)
    IN  CASE Kind(t) = "unzip_gz" -> {a.id.id}
          [] Kind(t) = "split_gfa" -> {a.gfa_id.id, a.paf_id.id}
          [] Kind(t) = "split_fa_into_contigs" ->
                {a.fa_id.id}
                  \cup {a.split_id_map.map[rc].map.fa_contigs.id :
                          rc \in {x \in DOMAIN a.split_id_map.map :
                                    "fa_contigs" \in DOMAIN a.split_id_map.map[x].map}}
          [] Kind(t) = "paf_to_lastz" -> {a.paf.id}
          [] Kind(t) = "run_prepend_unique_ids" ->
                {a.cactusWorkflowArguments.map.sequenceID.id}
                  \cup (IF a.renameCigars.v
                        THEN BlobIdsIn(a.cactusWorkflowArguments.map.alignmentsID)
                               \cup BlobIdsIn(a.cactusWorkflowArguments.map.secondaryAlignmentsID)
                        ELSE {})
          [] Kind(t) = "run_ingroup_coverage" ->
                BlobIdsIn(a.cactusWorkflowArguments.map.outgroupFragmentIDs)
                  \cup {a.cactusWorkflowArguments.map.sequenceID.id,
                        a.cactusWorkflowArguments.map.alignmentsID.id}
          [] Kind(t) = "CactusSetupCheckpoint" -> BlobIdsIn(a.cactusWorkflowArguments)
          [] Kind(t) = "exportHal" -> BlobIdsIn(a.project)
          [] Kind(t) = "export_vg" -> IF a.resource_spec.v THEN {a.hal_id.id} ELSE {}
          [] OTHER -> {}

\* the blobs the export step of the main program reads
ExportReads == BlobIdsIn(Returned)

\* the blobs that jobs wrote with cleanup enabled
CleanupBlobs == {f \in store : f.cleanup # NoTask}

NamesOf(manifest) == {manifest[i].name : i \in DOMAIN manifest}

\* no two lines of the manifest have the same name
NoRepeat(manifest) ==
    \A i, j \in DOMAIN manifest : manifest[i].name = manifest[j].name => i = j

\* the table export_split_data was given
GatheredTable == Returned.map

\* the split was exported to its end
SplitExported == IsSplit /\ leader = "exported"

\* C20: after export_split_data, chromfile.txt has exactly one line per key
\* of the gathered table, the key followed by the path of the key's
\* seqfile, and the seqfile of each key has exactly one line per event of
\* the key's fa mapping, the event followed by the path its fasta was
\* exported to; no key and no event is missing or repeated.
C20_ManifestsListEveryKeyOnce ==
    SplitExported =>
        /\ NamesOf(exported.chromfile) = DOMAIN GatheredTable
        /\ NoRepeat(exported.chromfile)
        /\ Len(exported.chromfile) = Cardinality(DOMAIN GatheredTable)
        /\ DOMAIN exported.seqfiles = DOMAIN GatheredTable
        /\ \A i \in DOMAIN exported.chromfile :
              exported.chromfile[i].path = <<exported.chromfile[i].name, "seqfile">>
        /\ \A rc \in DOMAIN GatheredTable :
              LET fa == GatheredTable[rc].map.fa.map
                  seqfile == exported.seqfiles[rc]
              IN  /\ NamesOf(seqfile) = DOMAIN fa
                  /\ NoRepeat(seqfile)
                  /\ Len(seqfile) = Cardinality(DOMAIN fa)
                  /\ \A k \in DOMAIN seqfile :
                        /\ seqfile[k].path = <<rc, "fasta", seqfile[k].name>>
                        /\ <<seqfile[k].path, fa[seqfile[k].name].id>> \in exported.files

\* an export of two keys with two events each, one fasta being the input
\* fasta reused for an event without contigs
C20_Witness ==
    /\ SplitExported
    /\ Len(exported.chromfile) = 2
    /\ \A rc \in DOMAIN GatheredTable : Len(exported.seqfiles[rc]) = 2
    /\ \E f \in exported.files : f[2][1] = "import"

(***************************************************************************)
(* The chrom file of cactus-graphmap-split read by cactus-align --batch.   *)
(***************************************************************************)
\* line.strip().split() of a manifest line: the name and the path, neither
\* of which holds white space
Tokens(line) == <<line.name, line.path>>

\* a line of the chrom file as make_batch_align_jobs takes it
ReadLine(line) == [toks |-> Len(Tokens(line)), chrom |-> Tokens(line)[1]]

\* for line in chrom_file
ReadChromFile(manifest) == [i \in DOMAIN manifest |-> ReadLine(manifest[i])]

\* the options of a batch
BatchRuns == {o \in AlignOptions : o.batch /\ BatchOptions(o)}

\* C21: the chromfile that export_split_data wrote is accepted by
\* make_batch_align_jobs: no line fails the line-format check and one align
\* job is made per key of the gathered table.
C21_ChromfileAcceptedByAlign ==
    SplitExported =>
        \A o \in BatchRuns :
            LET made == make_batch_align_jobs(o, ReadChromFile(exported.chromfile),
                                              TRUE, FALSE)
            IN  /\ made.err = ""
                /\ DOMAIN made.jobs.map = DOMAIN GatheredTable

(***************************************************************************)
(* Output to s3: the artifacts are written by the jobs that make them.     *)
(***************************************************************************)
IsS3 == IsAlign /\ input.options.checkpointInfo.tag # "none"

\* the objects the jobs of a task's alignment are to leave in the sink
ArtifactsOf(t) ==
    LET a == args[t].map
        key == t[2]
    IN  IF Kind(t) = "exportHal"
        THEN {S3Object(SinkKey(a.checkpointInfo, "hal"), <<key, "hal">>)}
        ELSE IF Kind(t) = "export_vg" /\ a.resource_spec.v
        THEN (IF a.doVG.v
              THEN {S3Object(SinkKey(a.checkpointInfo, "vg"), <<key, "vg">>)}
              ELSE {})
               \cup (IF a.doGFA.v
                     THEN {S3Object(SinkKey(a.checkpointInfo, "gfa.gz"),
                                    <<key, "gfa.gz">>)}
                     ELSE {})
        ELSE {}

\* C22: with an s3 output nothing is exported after the workflow, and every
\* requested artifact that a Succeeded job produced is in the sink under
\* its key with the content the job wrote, in a restarted run as in an
\* uninterrupted one.
C22_S3ArtifactsInSink ==
    IsS3 =>
        /\ leader = "exported" => exported.files = {}
        /\ \A t \in Tasks :
              state[t] = "Succeeded" => ArtifactsOf(t) \subseteq sink
        /\ \A o, n \in sink : o.key = n.key => o = n

(***************************************************************************)
(* Sibling jobs: the jobs of the events and the jobs of the chromosomes.   *)
(***************************************************************************)
Siblings == OfKind("split_fa_into_contigs") \cup OfKind("run_cactus_align")

\* what rgfa-split left behind, read from the result of split_gfa and from
\* the file store
FilesWritten ==
    {f \in Contigs \X SplitExts :
        /\ f[1] \in DOMAIN result[SplitGfaJob].map
        /\ f[2] \in DOMAIN result[SplitGfaJob].map[f[1]].map}
LinesWritten ==
    [n \in Contigs |->
        IF <<n, "fa_contigs">> \in FilesWritten
        THEN Content(<<n, "fa_contigs">>) ELSE {}]

\* the tasks a step changes
Changed ==
    {t \in Tasks :
        \/ state'[t] # state[t] \/ result'[t] # result[t] \/ args'[t] # args[t]
        \/ children'[t] # children[t] \/ followOn'[t] # followOn[t]}

\* a step that changes a task under a sibling that exists changes no task
\* elsewhere
OwnSubtreeOnly ==
    \A s \in Siblings :
        (state[s] # "Absent" /\ Changed \cap Subtree(s)' # {}) =>
            Changed \subseteq Subtree(s)'

\* the table is made of what each sibling's own jobs returned
TableOfSiblings ==
    /\ (IsSplit /\ WorkflowDone) =>
          Returned = SplitTable(FilesWritten, LinesWritten)
    /\ (IsAlign /\ WorkflowDone) =>
          \A c \in DOMAIN Returned.map :
              /\ Returned.map[c] = Resolve(result[T("run_cactus_align", c)])
              /\ Returned.map[c].items[1] = result[T("exportHal", c)]

\* C23: sibling tasks share no mutable state.  Every step of a sibling's
\* jobs changes tasks of that sibling's subtree only, and whatever the
\* order in which the siblings ran and ended, the gathered table is the one
\* table that the outputs of the tools determine.
C23_SiblingsShareNothing == []TableOfSiblings /\ [][OwnSubtreeOnly]_vars

\* two events and two reference contigs: the sibling jobs of both events
\* are done and the table of both contigs is gathered
C23_Witness ==
    /\ IsSplit /\ WorkflowDone
    /\ Cardinality(OfKind("split_fa_into_contigs") \cap
                   {t \in Tasks : state[t] = "Succeeded"}) = 2
    /\ DOMAIN Returned.map = Contigs

(***************************************************************************)
(* The blobs of the file store are never changed.                          *)
(***************************************************************************)
\* a step keeps every file of the store as it is
StoreKept == \A f \in store : f \in store'

\* C24: no task body changes a blob already in the file store.  The fasta
\* that split_fa_into_contigs decompresses in place is the job's own
\* mutable copy, and the decompression of run_prepend_unique_ids writes to
\* another path than the file it read; every file of the store stays as it
\* was written.
C24_BlobsNeverChanged == [][StoreKept]_vars

\* a split_fa_into_contigs job has decompressed its compressed fasta and
\* ended, and the imported fasta is in the store as it was imported
C24_Witness ==
    \E t \in OfKind("split_fa_into_contigs") :
        /\ state[t] = "Succeeded"
        /\ EndsWithGz(args[t].map.fa_path.v)
        /\ File(args[t].map.fa_id.id, {}) \in store

(***************************************************************************)
(* The stages of one alignment.                                            *)
(***************************************************************************)
StageOrder ==
    <<"paf_to_lastz", "run_prepend_unique_ids", "run_ingroup_coverage",
      "run_setup_phase", "run_prepare_hal_export", "exportHal", "export_vg">>

\* the stages the graph of alignment k is to have, from the arguments of
\* its run_cactus_align job
StagesWanted(k) ==
    LET a == args[T("run_cactus_align", k)].map
    IN  {"run_prepend_unique_ids", "run_setup_phase", "run_prepare_hal_export",
         "exportHal"}
          \cup (IF a.pafInput.v THEN {"paf_to_lastz"} ELSE {})
          \cup (IF Len(a.cactusWorkflowArguments.map.ingroupCoverageIDs.items) = 0
                THEN {"run_ingroup_coverage"} ELSE {})
          \cup (IF a.doVG.v \/ a.doGFA.v THEN {"export_vg"} ELSE {})

\* the stages alignment k has, in order
StagesOf(k) ==
    SelectSeq(StageOrder, LAMBDA kind : state[T(kind, k)] # "Absent")

\* the task and everything under its children has succeeded
StageDone(t) ==
    state[t] = "Succeeded" /\ \A c \in children[t] : SubtreeDone(c)

\* C25: once run_cactus_align has built the graph of an alignment, the
\* graph has paf_to_lastz iff pafInput, run_ingroup_coverage iff there was
\* no ingroup coverage, export_vg iff doVG or doGFA, and the four other
\* stages always; and a stage has started only if the stage before it and
\* everything under that stage has succeeded.
C25_StagesInOrder ==
    \A k \in RunKeys :
        state[T("run_cactus_align", k)] = "Succeeded" =>
            /\ {StagesOf(k)[i] : i \in DOMAIN StagesOf(k)} = StagesWanted(k)
            /\ \A i \in 2 .. Len(StagesOf(k)) :
                  Started(T(StagesOf(k)[i], k)) =>
                      StageDone(T(StagesOf(k)[i - 1], k))

\* an alignment with all seven stages has run to the end of export_vg
C25_Witness ==
    \E k \in RunKeys :
        /\ state[T("run_cactus_align", k)] = "Succeeded"
        /\ Len(StagesOf(k)) = 7
        /\ \A n \in 0 .. 1 : state[<<"export_vg", k, n>>] = "Succeeded"

(***************************************************************************)
(* Termination under a weakly fair executor.                               *)
(***************************************************************************)
\* the executor starts a job that is ready, or the body of a running job
\* runs to its end
Work ==
    \/ Start
    \/ Run_Job
    \/ Run_graphmap_split_workflow
    \/ Run_unzip_gz
    \/ Run_split_gfa
    \/ Run_split_fas
    \/ Run_split_fa_into_contigs
    \/ Run_gather_fas
    \/ Run_run_batch_align_jobs
    \/ Run_run_cactus_align
    \/ Run_paf_to_lastz
    \/ Run_run_prepend_unique_ids
    \/ Run_run_ingroup_coverage
    \/ Run_run_setup_phase
    \/ Run_CactusSetupCheckpoint
    \/ Run_run_prepare_hal_export
    \/ Run_exportHal
    \/ Run_export_vg

FairNext ==
    \/ Work
    \/ ToolFails
    \/ ExportSplit
    \/ ExportAlign
    \/ WorkflowFails

\* the runs without a stagger, under an executor that does not leave a
\* ready job or a running body waiting for ever
FairSpec == RestartInit /\ [][FairNext]_vars /\ WF_vars(Work)

SomeFailed == \E t \in Tasks : state[t] = "Failed"

\* every task that was created has succeeded and the root's promise
\* resolves to a table
Finished ==
    /\ \A t \in Tasks : state[t] \in {"Absent", "Succeeded"}
    /\ state[Root] = "Succeeded"
    /\ Resolved(result[Root])
    /\ Returned \in UninterruptedTables

\* while no body has failed and the workflow is not finished, some job can
\* start or some running body can end
NotStuck == (~SomeFailed /\ ~Finished) => ENABLED Work

\* C26: if no task body fails, the workflow terminates: every task ever
\* created reaches Succeeded and the root's promise resolves to the result
\* table; and no state without a failure is a deadlock.
C26_Terminates == []NotStuck /\ <>(SomeFailed \/ Finished)

\* a workflow of two keys has finished, each of its jobs having run once
C26_Witness ==
    /\ Finished
    /\ DOMAIN Returned.map = Contigs
    /\ \A t \in Tasks : state[t] = "Succeeded" => checkpointLog[t] = <<"Succeeded">>

(***************************************************************************)
(* The resources of the sized export_vg.                                   *)
(***************************************************************************)
\* C27: the sized export_vg child has disk = 3 x size(hal) and memory =
\* 10 x size(hal), the size being that of the hal that exportHal returned;
\* the unsized export_vg is created with a promise for the hal and without
\* resources, and the sized child exists only once exportHal has succeeded
\* and the unsized job has run.
C27_SizedFromResolvedHal ==
    \A k \in RunKeys :
        /\ state[ExportVg(k, 0)] # "Absent" =>
              /\ args[ExportVg(k, 0)].map.hal_id = Promise(T("exportHal", k), Whole)
              /\ disk[ExportVg(k, 0)] = 0 /\ memory[ExportVg(k, 0)] = 0
        /\ state[ExportVg(k, 1)] # "Absent" =>
              /\ state[T("exportHal", k)] = "Succeeded"
              /\ state[ExportVg(k, 0)] = "Succeeded"
              /\ disk[ExportVg(k, 1)] = 3 * result[T("exportHal", k)].size
              /\ memory[ExportVg(k, 1)] = 10 * result[T("exportHal", k)].size
              /\ args[ExportVg(k, 1)].map.hal_id = result[T("exportHal", k)]

\* a hal of the largest size: the sized export_vg has 3 and 10 times it
C27_Witness ==
    \E k \in RunKeys :
        /\ state[ExportVg(k, 1)] = "Pending"
        /\ result[T("exportHal", k)].size = MaxSize
        /\ disk[ExportVg(k, 1)] = 3 * MaxSize
        /\ memory[ExportVg(k, 1)] = 10 * MaxSize

(***************************************************************************)
(* The disk requests of graphmap_split_workflow.                           *)
(***************************************************************************)
\* the imported size of an input of the split ("gfa" or "paf"), times 10
\* if its path ends in .gz
TakenSize(imported, path) ==
    IF EndsWithGz(path.v) THEN 10 * imported.size ELSE imported.size

\* C28: the disk of split_gfa is 5 x (G + P), G and P being the imported
\* sizes of the gfa and the paf, times 10 for an input whose path ends in
\* .gz; an unzip_gz child exists for an input iff its path ends in .gz, with
\* disk 10 x the imported size; and split_gfa is given the promise of the
\* unzip_gz in place of the imported id.
C28_SplitGfaDisk ==
    LET a == args[SplitRoot].map
        unzip(x) == T("unzip_gz", x)
    IN  (IsSplit /\ state[SplitRoot] = "Succeeded") =>
            /\ disk[SplitGfaJob] =
                  5 * (TakenSize(a.gfa_id, a.gfa_path) + TakenSize(a.paf_id, a.paf_path))
            /\ state[unzip("gfa")] # "Absent" <=> EndsWithGz(a.gfa_path.v)
            /\ state[unzip("paf")] # "Absent" <=> EndsWithGz(a.paf_path.v)
            /\ EndsWithGz(a.gfa_path.v) =>
                  /\ disk[unzip("gfa")] = 10 * a.gfa_id.size
                  /\ args[unzip("gfa")].map.id = a.gfa_id
                  /\ args[SplitGfaJob].map.gfa_id = Promise(unzip("gfa"), Whole)
            /\ EndsWithGz(a.paf_path.v) =>
                  /\ disk[unzip("paf")] = 10 * a.paf_id.size
                  /\ args[unzip("paf")].map.id = a.paf_id
                  /\ args[SplitGfaJob].map.paf_id = Promise(unzip("paf"), Whole)
            /\ ~EndsWithGz(a.gfa_path.v) => args[SplitGfaJob].map.gfa_id = a.gfa_id
            /\ ~EndsWithGz(a.paf_path.v) => args[SplitGfaJob].map.paf_id = a.paf_id

\* a compressed gfa of size 1 and a plain paf of size 2: disk 5 x (10 + 2)
C28_Witness ==
    /\ IsSplit /\ state[SplitRoot] = "Succeeded"
    /\ EndsWithGz(args[SplitRoot].map.gfa_path.v)
    /\ ~EndsWithGz(args[SplitRoot].map.paf_path.v)
    /\ args[SplitRoot].map.gfa_id.size = 1
    /\ disk[SplitGfaJob] = 60

(***************************************************************************)
(* The children of split_fas and the ids of the events.                    *)
(***************************************************************************)
SplitFasJob == T("split_fas", "")

\* the split_fa_into_contigs jobs that were created
EventJobs == {t \in OfKind("split_fa_into_contigs") : state[t] # "Absent"}

\* the id the job of event e was created with
CactusIdOf(e) == args[T("split_fa_into_contigs", e)].map.cactus_id.v

\* the events whose prefix the line of text n starts with
ClaimedBy(n, events) ==
    {e \in events : StartsWithUniqueId(n, CactusIdOf(e))}

\* C29: split_fas makes exactly one split_fa_into_contigs child per event,
\* with the ids 0..n-1 in the sorted order of the event names, and a line
\* 'id=<i>|...' starts with the prefix 'id=<j>|' only if i = j, so that no
\* line of a .fa_contigs list is attributed to two events.
C29_OneChildAndOneIdPerEvent ==
    /\ \A i, j \in 0 .. MaxLineId : StartsWithUniqueId(i, j) <=> i = j
    /\ (IsSplit /\ state[SplitFasJob] = "Succeeded") =>
          /\ EventJobs = {T("split_fa_into_contigs", e) : e \in InputEvents}
          /\ children[T("Job", "split_fas")] = EventJobs
          /\ \A t \in EventJobs : args[t].map.event.v = t[2]
          /\ {CactusIdOf(e) : e \in InputEvents} =
                0 .. (Cardinality(InputEvents) - 1)
          /\ \A e, f \in InputEvents :
                CactusIdOf(e) < CactusIdOf(f) <=> EventRank(e) < EventRank(f)
          /\ \A f \in store, n \in 0 .. MaxLineId :
                (f.id[2] = "fa_contigs" /\ n \in f.content) =>
                    Cardinality(ClaimedBy(n, InputEvents)) <= 1

\* two events, two children with the ids 0 and 1, and a list that holds a
\* line of each
C29_Witness ==
    /\ IsSplit /\ state[SplitFasJob] = "Succeeded"
    /\ Cardinality(EventJobs) = 2
    /\ \E f \in store : f.id[2] = "fa_contigs" /\ f.content = {0, 1}
    /\ ClaimedBy(1, InputEvents) = {MINIGRAPH_SEQUENCES}

(***************************************************************************)
(* What gather_fas adds to the table of split_gfa.                         *)
(***************************************************************************)
\* C30: gather_fas only adds the fa attribute.  The table it returns has
\* the keys of split_gfa's table, under every key the attributes split_gfa
\* gave it with the same blobs, and an fa attribute that maps every event
\* to what the event's split_fa_into_contigs job returned for that key.
C30_GatherOnlyAddsFa ==
    (IsSplit /\ state[GatherJob] = "Succeeded"
        /\ state[SplitGfaJob] = "Succeeded" /\ state[SplitFasJob] = "Succeeded") =>
        LET out == result[GatherJob].map
            split == result[SplitGfaJob].map
        IN  /\ DOMAIN out = DOMAIN split
            /\ \A rc \in DOMAIN out :
                  /\ DOMAIN out[rc].map = DOMAIN split[rc].map \cup {"fa"}
                  /\ \A x \in DOMAIN split[rc].map : out[rc].map[x] = split[rc].map[x]
                  /\ DOMAIN out[rc].map.fa.map = InputEvents
                  /\ \A e \in InputEvents :
                        out[rc].map.fa.map[e] =
                            result[T("split_fa_into_contigs", e)].map[rc]

\* a table of two keys and two events, one fasta being a new blob and
\* another the input fasta
C30_Witness ==
    /\ IsSplit /\ state[GatherJob] = "Succeeded" /\ state[SplitFasJob] = "Succeeded"
    /\ DOMAIN result[GatherJob].map = Contigs
    /\ Cardinality(InputEvents) = 2
    /\ \E rc \in Contigs, e \in InputEvents :
          result[GatherJob].map[rc].map.fa.map[e].id[1] = "import"
    /\ \E rc \in Contigs, e \in InputEvents :
          result[GatherJob].map[rc].map.fa.map[e].id = <<e, rc, "fa">>

(***************************************************************************)
(* The keys of the table of cactus-align.                                  *)
(***************************************************************************)
\* the lines of the chrom file that name a chromosome
ChromLines == Launched(input.lines, Len(input.lines))

\* C31: the table the align workflow returns has one entry per work unit:
\* in a batch one entry per chromosome line of the chrom file, also when a
\* name repeats, each being the (hal, vg, gfa) triple of that chromosome;
\* without --batch exactly one entry, under the key None.
C31_TableKeyedByWorkUnits ==
    (IsAlign /\ WorkflowDone) =>
        /\ IsBatch =>
              /\ Cardinality(DOMAIN Returned.map) = Cardinality(ChromLines)
              /\ DOMAIN Returned.map = ChromsOf(input.lines)
        /\ ~IsBatch => DOMAIN Returned.map = {NoChrom}
        /\ \A c \in DOMAIN Returned.map :
              /\ Len(Returned.map[c].items) = 3
              /\ Returned.map[c].items[1].id = <<c, "hal">>

(***************************************************************************)
(* The options objects of make_batch_align_jobs.  Python options are       *)
(* mutable objects reached through references: the heap maps a reference   *)
(* to the fields of the object it names: the options of the caller, and   *)
(* the chrom_options of line i.                                            *)
(***************************************************************************)
CallerRef == <<"options">>
ChromRef(i) == <<"chrom_options", i>>

\* the options of main, with the fields make_align_job assigns
Namespace(options, checkpointInfo, root) ==
    [batch |-> options.batch, seqFile |-> <<"seqFile">>, cigarsFile |-> <<>>,
     stagger |-> options.stagger, checkpointInfo |-> checkpointInfo,
     root |-> root, cactusDir |-> None]

\* a copy that shares its object with the original
deepcopy_shared(heap, ref, new) == [heap |-> heap, ref |-> ref]

\* copy.deepcopy: a new object with the fields of the original
deepcopy(heap, ref, new) ==
    [heap |-> [r \in DOMAIN heap \cup {new} |->
                  IF r = new THEN heap[ref] ELSE heap[r]],
     ref |-> new]

\* what make_align_job assigns to the options it is given for line i
make_align_job_options(o, i, pathOverrides) ==
    LET cactusDir == Val(<<"tmp", i>>)
        seqFile == IF pathOverrides THEN <<cactusDir.v, "seqFile.override">>
                   ELSE o.seqFile
    IN  [o EXCEPT !.cactusDir = cactusDir,
                  !.seqFile = seqFile,
                  !.root = IF o.root = None THEN Val(<<"root", seqFile>>)
                           ELSE o.root]

\* The loop of make_batch_align_jobs from line i on.  made[j] is the
\* configuration the job of line j was built from, refs[j] its object.
RECURSIVE batch_options(_, _, _, _, _, _)
batch_options(heap, lines, i, stagger_delay, made, pathOverrides) ==
    IF i > Len(lines) THEN [heap |-> heap, made |-> made]
    ELSE IF lines[i].toks = 0
    THEN batch_options(heap, lines, i + 1, stagger_delay, made, pathOverrides)
    ELSE
      LET copy == deepcopy(heap, CallerRef, ChromRef(i))
          chrom_options ==
              [copy.heap[copy.ref] EXCEPT
                  !.batch = FALSE,
                  !.seqFile = <<i, "seqfile">>,
                  !.cigarsFile = <<<<i, "alnFile">>>>,
                  !.stagger = stagger_delay,
                  !.checkpointInfo = ChromCheckpoint(@, lines[i].chrom)]
          built == make_align_job_options(chrom_options, i, pathOverrides)
          after == [copy.heap EXCEPT ![copy.ref] = built]
      IN  batch_options(after, lines, i + 1,
                        stagger_delay + after[CallerRef].stagger,
                        made @@ (i :> [ref |-> copy.ref, options |-> built]),
                        pathOverrides)

\* the heap and the configurations after make_batch_align_jobs
BatchOptionsOf(caller, lines, pathOverrides) ==
    batch_options((CallerRef :> caller), lines, 1, 0, <<>>, pathOverrides)

Checkpoints == {None, Val([region |-> "region", path |-> <<"outHal">>])}
Roots == {None, Val("Anc0")}

\* C32: in batch mode every chromosome has its own configuration: after
\* make_batch_align_jobs the options of the caller have the batch, seqFile,
\* cigarsFile, stagger, checkpointInfo, root and cactusDir they had before,
\* and the configuration a chromosome's job was built from (its delay, its
\* checkpoint key, its seqFile, root and cactusDir) is still the content of
\* that chromosome's options object and of no other chromosome's object.
C32_ChromOptionsIndependent ==
    (IsBatch /\ leader # "failed") =>
        \A checkpointInfo \in Checkpoints, root \in Roots,
           pathOverrides \in BOOLEAN :
            LET caller == Namespace(input.options, checkpointInfo, root)
                r == BatchOptionsOf(caller, input.lines, pathOverrides)
                jobs == make_batch_align_jobs(input.options, input.lines,
                                              input.og_fragments,
                                              input.secondary).jobs.map
            IN  /\ r.heap[CallerRef] = caller
                /\ DOMAIN r.made = ChromLines
                /\ \A i \in ChromLines :
                      /\ r.heap[r.made[i].ref] = r.made[i].options
                      /\ r.made[i].options.stagger =
                            input.options.stagger
                               * Cardinality(Launched(input.lines, i - 1))
                      /\ r.made[i].options.checkpointInfo =
                            ChromCheckpoint(checkpointInfo, input.lines[i].chrom)
                      /\ r.made[i].options.cactusDir = Val(<<"tmp", i>>)
                      /\ \A j \in ChromLines \ {i} :
                            r.made[j].ref # r.made[i].ref
                /\ \A c \in DOMAIN jobs :
                      \E i \in ChromLines :
                          /\ input.lines[i].chrom = c
                          /\ jobs[c].map.delay = Val(r.made[i].options.stagger)

\* a batch of two chromosomes with a stagger, run to the end
C32_Witness ==
    /\ IsBatch /\ WorkflowDone
    /\ Cardinality(ChromLines) >= 2
    /\ input.options.stagger > 0
    /\ BatchOptionsOf(Namespace(input.options, None, None), input.lines,
                      TRUE).made[2].options.stagger > 0

(***************************************************************************)
(* What export_vg publishes.                                               *)
(***************************************************************************)
\* the sized export_vg tasks that succeeded
VgExported == {t \in OfKind("export_vg") :
                  state[t] = "Succeeded" /\ args[t].map.resource_spec.v}

\* the kinds of object in the sink that belong to the run of task t
SinkKindsOf(t) ==
    {ext \in {"vg", "gfa.gz"} :
        \E o \in sink : o.key = SinkKey(args[t].map.checkpointInfo, ext)}

\* C33: export_vg publishes a kind of artifact only if it was asked for: the
\* vg id it returns is not None iff doVG, the gfa id is not None iff doGFA,
\* and with an s3 checkpoint the sink holds a .vg object iff doVG and a
\* .gfa.gz object iff doGFA.
C33_PublishesOnlyRequested ==
    \A t \in VgExported :
        LET a == args[t].map IN
        /\ a.doVG.v \/ a.doGFA.v
        /\ (result[t].items[1] # None) <=> a.doVG.v
        /\ (result[t].items[2] # None) <=> a.doGFA.v
        /\ a.checkpointInfo.tag # "none" =>
              /\ "vg" \in SinkKindsOf(t) <=> a.doVG.v
              /\ "gfa.gz" \in SinkKindsOf(t) <=> a.doGFA.v

(***************************************************************************)
(* The event-name-as-id mode of cactus-align.                              *)
(***************************************************************************)
\* the values of CACTUS_EVENT_NAME_AS_UNIQUE_ID in the environment of main
EnvironValues == {None, Val(""), Val("0"), Val("1"), Val("true")}

\* str(int(b))
StrInt(b) == IF b THEN "1" ELSE "0"

\* main, from os.environ.get to the option handed to every align job.  With
\* the variable set, the test reads eventName, a name main never binds.
main_eventNameAsID(environ, pangenome, pafInput) ==
    IF environ # None
    THEN [err |-> "NameError", eventNameAsID |-> None, environ |-> environ,
          job |-> None]
    ELSE LET eventNameAsID == pangenome \/ pafInput
         IN  [err |-> "", eventNameAsID |-> Val(eventNameAsID),
              environ |-> Val(StrInt(eventNameAsID)),
              job |-> Val(eventNameAsID)]

\* C34: the mode bit is defined for every environment: with the variable
\* set, eventNameAsID is False for the empty value and for "0" and True
\* otherwise; with it unset, it is (pangenome or pafInput); afterwards the
\* variable is "0" or "1" as eventNameAsID says, and the align jobs are
\* given that value.
C34_EventNameAsIDDefined ==
    IsAlign =>
        \A environ \in EnvironValues, pangenome \in BOOLEAN :
            LET r == main_eventNameAsID(environ, pangenome,
                                        input.options.pafInput)
                expected == IF environ # None
                            THEN environ.v \notin {"", "0"}
                            ELSE pangenome \/ input.options.pafInput
            IN  /\ r.err = ""
                /\ r.eventNameAsID = Val(expected)
                /\ r.environ = Val(StrInt(expected))
                /\ r.job = Val(expected)

(***************************************************************************)
(* make_align_job: the probe for outgroup fragments.                       *)
(***************************************************************************)
MaxOutgroups == 2

\* present[i]: the file of fragment i - 1 exists
FragmentPatterns == UNION {[1 .. n -> BOOLEAN] : n \in 0 .. MaxOutgroups}

OgFragment(i) == <<"og_fragment", i - 1>>
OgSequence(i) == <<"outgroup", i - 1>>

\* The loop over the outgroups from outgroup i on.  A missing file and the
\* failed assertion are both caught by the bare except, which empties
\* outgroupIDs and leaves the loop; outgroup_fragment_found keeps its value.
RECURSIVE probe_outgroups(_, _, _, _, _)
probe_outgroups(present, pangenome, i, outgroupIDs, outgroup_fragment_found) ==
    IF i > Len(present)
    THEN [outgroupIDs |-> outgroupIDs,
          outgroup_fragment_found |-> outgroup_fragment_found]
    ELSE IF ~present[i]
    THEN [outgroupIDs |-> <<>>,
          outgroup_fragment_found |-> outgroup_fragment_found]
    ELSE IF pangenome
    THEN [outgroupIDs |-> <<>>, outgroup_fragment_found |-> TRUE]
    ELSE probe_outgroups(present, pangenome, i + 1,
                         Append(outgroupIDs, OgFragment(i)), TRUE)

\* make_align_job from the probe to the arguments of the workflow
outgroup_state(present, pangenome) ==
    LET p == probe_outgroups(present, pangenome, 1, <<>>, FALSE)
        found == p.outgroup_fragment_found
    IN  [err |-> "",
         outgroup_fragment_found |-> found,
         \* the outgroup sequences are imported only without fragments
         imported |-> IF found THEN {}
                      ELSE {OgSequence(i) : i \in DOMAIN present},
         outgroupFragmentIDs |->
             IF found THEN p.outgroupIDs
             ELSE [i \in DOMAIN present |-> OgSequence(i)],
         \* the coverage files are looked for with fragments and outgroups
         wantsCoverage |-> found /\ Len(present) > 0]

\* C35: after the probe one of two consistent states holds, for every
\* pattern of present and missing fragment files: a fragment was found for
\* every outgroup (outgroup_fragment_found, one fragment id per outgroup, in
\* order), or none is used (not outgroup_fragment_found, the ids are the
\* outgroups' own sequences, which are imported); and a fragment found in
\* pangenome mode is a failure.
C35_OutgroupStateConsistent ==
    IsAlign =>
        \A present \in FragmentPatterns, pangenome \in BOOLEAN :
            LET r == outgroup_state(present, pangenome)
                all == r.outgroup_fragment_found
                          /\ r.outgroupFragmentIDs =
                                [i \in DOMAIN present |-> OgFragment(i)]
                          /\ r.imported = {}
                no  == ~r.outgroup_fragment_found
                          /\ r.outgroupFragmentIDs =
                                [i \in DOMAIN present |-> OgSequence(i)]
                          /\ r.imported = {OgSequence(i) : i \in DOMAIN present}
            IN  IF pangenome /\ Len(present) > 0 /\ present[1]
                THEN r.err # ""
                ELSE r.err = "" /\ (all \/ no)

(***************************************************************************)
(* The graph event of cactus-graphmap-split.                               *)
(***************************************************************************)
\* the assemblyName of the graphmap element of the configuration, if any
AssemblyNames == {None} \cup {Val(e) : e \in AllEvents}

\* getOptionalAttrib(..., "assemblyName", default="__MINIGRAPH_SEQUENCES__")
graph_event(assemblyName) ==
    IF assemblyName = None THEN MINIGRAPH_SEQUENCES ELSE assemblyName.v

\* C36: the event whose zero-match fallback split_fa_into_contigs accepts is
\* the graph event main reads from the configuration and requires in the
\* sequence map: for every configured assemblyName, the job of the graph
\* event that finds no contig of its event for a reference contig returns its
\* whole fasta for that contig and does not fail.
C36_FallbackForGraphEvent ==
    IsSplit =>
        \A assemblyName \in AssemblyNames :
            LET g == graph_event(assemblyName)
                t == T("split_fa_into_contigs", g)
            IN  \* assert graph_event in seqIDMap
                g \in InputEvents =>
                    /\ (state[t] = "Succeeded" =>
                          \A rc \in ZeroMatch(g) :
                              result[t].map[rc] = Resolve(args[t]).map.fa_id)
                    /\ ~(/\ state[t] = "Failed"
                         /\ error[t] = "AssertionError"
                         /\ ZeroMatch(g) # {})

(***************************************************************************)
(* Staggering and the mode of cactus-align.                                *)
(***************************************************************************)
\* the chromosome of the first line of the chrom file that names one
FirstChrom ==
    input.lines[CHOOSE i \in ChromLines : \A j \in ChromLines : i <= j].chrom

\* C37: staggering applies to batches only: the task of the first chromosome
\* of a batch has delay 0, and without --batch the one alignment task has
\* delay 0 whatever --stagger is.
C37_StaggerOnlyInBatches ==
    IsAlign =>
        \A t \in OfKind("run_cactus_align") :
            state[t] # "Absent" =>
                /\ ~IsBatch => DelayOf(t) = 0
                /\ (IsBatch /\ t[2] = FirstChrom) => DelayOf(t) = 0

(***************************************************************************)
(* cactus-align-batch: one cactus-align per chromosome, each run by a job  *)
(* of its own.                                                             *)
(***************************************************************************)
\* the options of cactus-align-batch that the jobs read; s3: outHal starts
\* with s3://.  The parser of main_batch defines no batch, outVG or outGFA.
AlignBatchOptions ==
    [s3 : BOOLEAN, alignCores : {1},
     alignCoresOverrides : UNION {[cs -> {2}] : cs \in SUBSET Contigs}]

\* main_batch: the chrom file in memory, a later line replacing an earlier
\* line of its name
chrom_dict(lines) ==
    [c \in ChromsOf(lines) |->
        <<Blob(<<"import", c, "seqfile">>, 1), Blob(<<"import", c, "alnFile">>, 1)>>]

\* align_toil_batch: the child jobs it adds, by chromosome
align_toil_batch(chroms, options) ==
    [chrom \in DOMAIN chroms |->
        [fn |-> "align_toil", chrom |-> chrom,
         seq_file_id |-> chroms[chrom][1], paf_file_id |-> chroms[chrom][2],
         cores |-> IF chrom \in DOMAIN options.alignCoresOverrides
                   THEN options.alignCoresOverrides[chrom]
                   ELSE options.alignCores]]

\* align_toil after cactus-align has run: ret_ids.  vg, gfa: cactus-align
\* left a .vg, a .gfa.gz beside the hal.
align_toil(chrom, options, vg, gfa) ==
    IF ~options.s3
    THEN <<Blob(<<chrom, "hal">>, 1),
           IF vg THEN Blob(<<chrom, "vg">>, 1) ELSE None,
           IF gfa THEN Blob(<<chrom, "gfa.gz">>, 1) ELSE None,
           Blob(<<chrom, "hal.log">>, 1)>>
    ELSE <<None, None, None, None>>

\* main_batch after the workflow: without an s3 output it reads
\* options.batch, an attribute its options do not have
main_batch_export(options, results_dict) ==
    IF ~options.s3
    THEN [err |-> "AttributeError", files |-> {}]
    ELSE [err |-> "", files |-> {}]

\* C38: align_toil_batch adds one align_toil child per chromosome, with the
\* cores of the chromosome's override if there is one and alignCores
\* otherwise; each returns four slots [hal, vg, gfa, log] of which hal and
\* log are not None iff the output is not an s3 URL; and without an s3 output
\* the export after the workflow completes and exports the hal and the log
\* of every chromosome.
C38_BatchProgramExports ==
    IsBatch =>
        \A options \in AlignBatchOptions, vg \in BOOLEAN, gfa \in BOOLEAN :
            LET chroms == chrom_dict(input.lines)
                jobs == align_toil_batch(chroms, options)
                results_dict ==
                    [c \in DOMAIN jobs |-> align_toil(c, options, vg, gfa)]
                export == main_batch_export(options, results_dict)
            IN  /\ DOMAIN jobs = ChromsOf(input.lines)
                /\ \A c \in DOMAIN jobs :
                      /\ jobs[c].fn = "align_toil" /\ jobs[c].chrom = c
                      /\ jobs[c].cores =
                            IF c \in DOMAIN options.alignCoresOverrides
                            THEN options.alignCoresOverrides[c]
                            ELSE options.alignCores
                      /\ Len(results_dict[c]) = 4
                      /\ (results_dict[c][1] # None) <=> ~options.s3
                      /\ (results_dict[c][4] # None) <=> ~options.s3
                /\ ~options.s3 =>
                      /\ export.err = ""
                      /\ \A c \in DOMAIN jobs :
                            {<<<<c, "hal">>, results_dict[c][1]>>,
                             <<<<c, "hal.log">>, results_dict[c][4]>>}
                                \subseteq export.files

====
